---- MODULE Spec2Model ----
(***************************************************************************)
(* Serverless image management system: the queue-driven Orchestrator, the  *)
(* Validation / Resize / Watermark stages, the Status Store and Object     *)
(* Store they share, and the Retrieval service.                            *)
(*                                                                         *)
(* Strings the code slices, splits or concatenates are sequences of        *)
(* one-character strings; strings the code only passes around are TLA+     *)
(* strings. Python dicts are functions whose DOMAIN is the set of keys     *)
(* present.                                                                *)
(***************************************************************************)
EXTENDS Integers, Sequences, FiniteSets, TLC

(***************************************************************************)
(* Bounds of the model                                                     *)
(***************************************************************************)
MaxInv == 1          \* concurrent Orchestrator invocations
MaxBatch == 2        \* messages per delivered batch
MaxQueue == 2        \* messages initially in the queue
MaxDeliveries == 2   \* deliveries the queue makes in one behaviour (at-least-once)
MaxClock == 1        \* seconds the clock may advance
MaxFaults == 1       \* dependency failures injected in one behaviour
StartTime == 1700000000  \* epoch second at which the behaviour starts

(***************************************************************************)
(* Python string helpers                                                   *)
(***************************************************************************)
Min(a, b) == IF a < b THEN a ELSE b

\* s[:n]
Take(s, n) == SubSeq(s, 1, Min(n, Len(s)))

\* s[n:]  (0-based n)
Drop(s, n) == SubSeq(s, n + 1, Len(s))

\* s.startswith(p)
StartsWith(s, p) == Len(s) >= Len(p) /\ SubSeq(s, 1, Len(p)) = p

\* s.split(c): always at least one segment, empty segments kept
Split(s, c) ==
  LET RECURSIVE go(_, _, _)
      go(i, cur, acc) ==
        IF i > Len(s) THEN Append(acc, cur)
        ELSE IF s[i] = c THEN go(i + 1, <<>>, Append(acc, cur))
        ELSE go(i + 1, Append(cur, s[i]), acc)
  IN go(1, <<>>, <<>>)

\* c in s
Contains(s, c) == \E i \in 1..Len(s) : s[i] = c

\* s.rfind(c) as a 1-based index, 0 when absent
RFind(s, c) ==
  LET hits == {i \in 1..Len(s) : s[i] = c}
  IN IF hits = {} THEN 0 ELSE CHOOSE i \in hits : \A j \in hits : j <= i

\* os.path.splitext(p)[0]: the extension starts at the last dot of the last
\* path component, unless only dots precede it in that component
SplitextRoot(p) ==
  LET sep == RFind(p, "/")
      dot == RFind(p, ".")
  IN IF dot > sep /\ (\E k \in (sep + 1)..(dot - 1) : p[k] # ".")
     THEN SubSeq(p, 1, dot - 1)
     ELSE p

\* str(n) for a natural number
RECURSIVE Digits(_)
Digits(n) ==
  LET d == <<"0", "1", "2", "3", "4", "5", "6", "7", "8", "9">>
  IN IF n < 10 THEN <<d[n + 1]>> ELSE Append(Digits(n \div 10), d[(n % 10) + 1])

\* dict.get(k, default)
Get(d, k, default) == IF k \in DOMAIN d THEN d[k] ELSE default

(***************************************************************************)
(* String literals of the code                                             *)
(***************************************************************************)
StrUploads == <<"u", "p", "l", "o", "a", "d", "s">>
StrResized == <<"r", "e", "s", "i", "z", "e", "d">>
StrWatermarked == <<"w", "a", "t", "e", "r", "m", "a", "r", "k", "e", "d">>
StrImg == <<"i", "m", "g">>
StrJpg == <<"j", "p", "g">>
StrPng == <<"p", "n", "g">>
StrUnknown == <<"u", "n", "k", "n", "o", "w", "n">>
StrImage == <<"i", "m", "a", "g", "e">>
StrBearer == <<"B", "e", "a", "r", "e", "r", " ">>
StrObjectCreated == <<"O", "b", "j", "e", "c", "t", "C", "r", "e", "a", "t", "e", "d">>
StrObjectRemoved == <<"O", "b", "j", "e", "c", "t", "R", "e", "m", "o", "v", "e", "d">>

\* Event names of the bucket's notifications
EvPut == StrObjectCreated \o <<":", "P", "u", "t">>
EvCopy == StrObjectCreated \o <<":", "C", "o", "p", "y">>
EvDelete == StrObjectRemoved \o <<":", "D", "e", "l", "e", "t", "e">>

(***************************************************************************)
(* The uploads of the model: three objects of the input bucket             *)
(***************************************************************************)
U1 == <<"u", "1">>
U2 == <<"u", "2">>
KeyAbc == <<"u", "p", "l", "o", "a", "d", "s", "/", "u", "1", "/", "a", "b", "c", ".", "j", "p", "g">>
KeyPic == <<"u", "p", "l", "o", "a", "d", "s", "/", "u", "1", "/", "p", "i", "c", ".", "p", "n", "g">>
KeyBig == <<"u", "p", "l", "o", "a", "d", "s", "/", "u", "2", "/", "b", "i", "g", ".", "j", "p", "g">>
UploadKeys == {KeyAbc, KeyPic, KeyBig}

\* Further objects of the input bucket: a palette GIF, a PNG of one pixel row
\* and a text file
KeyGif == <<"u", "p", "l", "o", "a", "d", "s", "/", "u", "2", "/", "a", "n", "i", "m", ".", "g", "i", "f">>
KeyThin == <<"u", "p", "l", "o", "a", "d", "s", "/", "u", "2", "/", "t", "h", "i", "n", ".", "p", "n", "g">>
KeyTxt == <<"u", "p", "l", "o", "a", "d", "s", "/", "u", "1", "/", "n", "o", "t", "e", "s", ".", "t", "x", "t">>
KeyTiny == <<"u", "p", "l", "o", "a", "d", "s", "/", "u", "2", "/", "t", "i", "n", "y", ".", "j", "p", "g">>
StoredKeys == UploadKeys \cup {KeyGif, KeyThin, KeyTxt, KeyTiny}

MiB == 1024 * 1024

\* What the input bucket holds under each key: the byte length, the leading
\* and the two trailing bytes (all that validation reads), and what Pillow
\* decodes from it.
JpegHead == <<255, 216, 255, 224, 0, 16, 74, 70, 73, 70, 0, 1>>
PngHead == <<137, 80, 78, 71, 13, 10, 26, 10, 0, 0, 0, 13>>
JpegTail == <<255, 217>>
PngTail == <<96, 130>>
GifHead == <<71, 73, 70, 56, 57, 97, 128, 2, 224, 1, 247, 0>>
GifTail == <<0, 59>>
TxtHead == <<72, 101, 108, 108, 111, 32, 119, 111, 114, 108, 100, 33>>
TxtTail == <<33, 10>>

InputObject(key) ==
  CASE key = KeyAbc -> [size |-> 2000, head |-> JpegHead, tail |-> JpegTail,
                        format |-> "JPEG", width |-> 1600, height |-> 1200, mode |-> "RGB"]
    [] key = KeyPic -> [size |-> 5000, head |-> PngHead, tail |-> PngTail,
                        format |-> "PNG", width |-> 500, height |-> 2000, mode |-> "RGBA"]
    [] key = KeyBig -> [size |-> 11 * MiB, head |-> JpegHead, tail |-> JpegTail,
                        format |-> "JPEG", width |-> 4000, height |-> 3000, mode |-> "RGB"]
    [] key = KeyGif -> [size |-> 3000, head |-> GifHead, tail |-> GifTail,
                        format |-> "GIF", width |-> 640, height |-> 480, mode |-> "P"]
    [] key = KeyTiny -> [size |-> 1500, head |-> JpegHead, tail |-> JpegTail,
                         format |-> "JPEG", width |-> 60, height |-> 40, mode |-> "RGB"]
    [] key = KeyThin -> [size |-> 900, head |-> PngHead, tail |-> PngTail,
                         format |-> "PNG", width |-> 3000, height |-> 1, mode |-> "RGB"]
    [] key = KeyTxt -> [size |-> 40, head |-> TxtHead, tail |-> TxtTail,
                        format |-> "NONE", width |-> 0, height |-> 0, mode |-> "NONE"]

(***************************************************************************)
(* Queue messages                                                          *)
(***************************************************************************)
\* Mutant: the check of the user_id segment is missing
ExtractUserInfoFromKey_KeepsEmptyUser(object_key) ==
  LET parts == Split(object_key, "/")
  IN IF Len(parts) # 3 THEN <<>>
     ELSE IF parts[1] # StrUploads THEN <<>>
     ELSE [user_id |-> parts[2], filename |-> parts[3]]

\* extract_user_info_from_key: None (here <<>>) unless the key is
\* uploads/<user_id>/<filename> with a non-empty user_id
ExtractUserInfoFromKey(object_key) ==
  LET parts == Split(object_key, "/")
  IN IF Len(parts) # 3 THEN <<>>
     ELSE IF parts[1] # StrUploads THEN <<>>
     ELSE IF parts[2] = <<>> THEN <<>>
     ELSE [user_id |-> parts[2], filename |-> parts[3]]

\* Mutant: the size of the object is published as size
MessageBody_SizeField(bucket_name, object_key, size, event_name, t) ==
  LET user_info == ExtractUserInfoFromKey(object_key)
  IN [image_id |-> object_key,
      bucket_name |-> bucket_name,
      user_id |-> user_info.user_id,
      user_email |-> "unknown",
      size |-> size,
      event_timestamp |-> t,
      event_name |-> event_name,
      upload_timestamp |-> t,
      original_filename |-> user_info.filename]

\* The message body process_s3_event builds for a creation event of a
\* well-formed key; t is the adapter's clock
MessageBody(bucket_name, object_key, size, event_name, t) ==
  LET user_info == ExtractUserInfoFromKey(object_key)
  IN [image_id |-> object_key,
      bucket_name |-> bucket_name,
      user_id |-> user_info.user_id,
      user_email |-> "unknown",
      file_size |-> size,
      event_timestamp |-> t,
      event_name |-> event_name,
      upload_timestamp |-> t,
      original_filename |-> user_info.filename]

\* The members of a message body that are numbers in the JSON text
JsonNumbers == {"file_size"}

\* json.dumps(message_body): per member, a string literal or the decimal
\* digits of a number
JsonDumps(message_body) ==
  [name \in DOMAIN message_body |->
     IF name \in JsonNumbers
     THEN [kind |-> "number", text |-> Digits(message_body[name])]
     ELSE [kind |-> "string", text |-> message_body[name]]]

JobMessage(key) ==
  [json |-> TRUE,
   obj |-> MessageBody("input-bucket", key, InputObject(key).size, EvPut, StartTime)]

\* A body that is not JSON text, and a JSON object without file_size
NotJson == [json |-> FALSE]
NoFileSize ==
  [json |-> TRUE,
   obj |-> [f \in (DOMAIN JobMessage(KeyAbc).obj) \ {"file_size"} |-> JobMessage(KeyAbc).obj[f]]]

MsgPool == <<JobMessage(KeyAbc), JobMessage(KeyPic), JobMessage(KeyBig), NotJson, NoFileSize>>
MsgIds == 1..Len(MsgPool)

\* The image a queue message names (only for messages that parse)
ImageOf(m) == MsgPool[m].obj["image_id"]
Invs == 1..MaxInv

(***************************************************************************)
(* State                                                                   *)
(***************************************************************************)
VARIABLES
  now,         \* seconds elapsed since StartTime
  queue,       \* message id -> absent, visible, in flight (held by an invocation) or deleted
  deliveries,  \* message id -> number of times it was delivered
  inv,         \* Orchestrator invocation -> its position in main()
  runs,        \* the Workflow Engine's executions, in start order
  store,       \* Status Store: record key -> attributes
  objects,     \* output bucket: key -> content type and metadata of the object
  writeLog,    \* Status Store writes that succeeded: who, for which image, which key
  last,        \* the most recent handler call: its input and what it did
  faults,      \* dependency failures so far
  published,   \* message bodies the Ingestion Adapter sent to the queue, in order
  starts       \* start calls the Orchestrator made to the engine, in order

vars == <<now, queue, deliveries, inv, runs, store, objects, writeLog, last, faults, published, starts>>

NoStr == <<>>
IdleInv == [pc |-> "idle", batch |-> <<>>, idx |-> 0, handle |-> NoStr, steps |-> <<>>]
Absent == [st |-> "absent", by |-> 0]
Visible == [st |-> "visible", by |-> 0]
Deleted == [st |-> "deleted", by |-> 0]
InFlight(i) == [st |-> "inflight", by |-> i]
NoCall == [op |-> "none"]
EmptyStore == [k \in {} |-> 0]

\* DynamoDB update_item with a SET expression: creates the item when the key
\* is new, otherwise overwrites the named attributes and keeps the others
UpdateItem(st, key, attrs) ==
  LET old == IF key \in DOMAIN st THEN st[key] ELSE [a \in {} |-> 0]
      new == [a \in (DOMAIN old) \cup (DOMAIN attrs) |->
                IF a \in DOMAIN attrs THEN attrs[a] ELSE old[a]]
  IN [k \in (DOMAIN st) \cup {key} |-> IF k = key THEN new ELSE st[k]]

\* Apply a handler's successful Status Store writes in order
RECURSIVE ApplyWrites(_, _)
ApplyWrites(st, ws) ==
  IF ws = <<>> THEN st
  ELSE ApplyWrites(UpdateItem(st, ws[1].key, ws[1].attrs), Tail(ws))

LogOf(stage, image, ws) == {[by |-> stage, image |-> image, key |-> ws[i].key] : i \in 1..Len(ws)}

Init ==
  /\ now = 0
  /\ \E q \in SUBSET MsgIds :
       /\ Cardinality(q) \in 1..MaxQueue
       /\ queue = [m \in MsgIds |-> IF m \in q THEN Visible ELSE Absent]
  /\ deliveries = [m \in MsgIds |-> 0]
  /\ inv = [i \in Invs |-> IdleInv]
  /\ runs = <<>>
  /\ store = EmptyStore
  /\ objects = EmptyStore
  /\ writeLog = {}
  /\ last = NoCall
  /\ faults = 0
  /\ published = <<>>
  /\ starts = <<>>

\* Sets of calls that fail in one handler call, within the fault budget;
\* res(F) is what the handler does under F, and a plan names only calls the
\* handler reaches (removing any of them changes what it does)
FaultPlans(labels, res(_)) ==
  {F \in SUBSET labels : /\ Cardinality(F) <= MaxFaults - faults
                         /\ \A l \in F : res(F \ {l}) # res(F)}

(***************************************************************************)
(* Ingestion Adapter (s3_event_handler/main.py)                            *)
(***************************************************************************)
MaxRecords == 2      \* notifications in one event of the Ingestion Adapter
MaxPublished == 2    \* the adapter is invoked while it has published fewer messages

\* None, as extract_user_info_from_key returns it
IsNone(x) == DOMAIN x = {}

\* Mutant: a key that does not parse is an error of the record
ProcessS3Event_MalformedKeyRaises(record, fails, t) ==
  LET s3_event == record["s3"]
      bucket_name == s3_event["bucket"]["name"]
      object_key == s3_event["object"]["key"]
      event_name == record["eventName"]
      user_info == ExtractUserInfoFromKey(object_key)
  IN IF ~StartsWith(event_name, StrObjectCreated)
       THEN [raised |-> FALSE, outcome |-> "skipped", user_info |-> <<>>, sent |-> <<>>]
     ELSE IF IsNone(user_info)
       THEN [raised |-> TRUE, outcome |-> "no_user_info", user_info |-> <<>>, sent |-> <<>>]
     ELSE IF "size" \notin DOMAIN s3_event["object"] \/ "eventTime" \notin DOMAIN record
       THEN [raised |-> TRUE, outcome |-> "KeyError", user_info |-> user_info, sent |-> <<>>]
     ELSE IF fails
       THEN [raised |-> TRUE, outcome |-> "send_failed", user_info |-> user_info, sent |-> <<>>]
     ELSE [raised |-> FALSE, outcome |-> "sent", user_info |-> user_info,
           sent |-> <<[MessageBody(bucket_name, object_key, s3_event["object"]["size"],
                                   event_name, t)
                        EXCEPT !.event_timestamp = record["eventTime"]]>>]

\* process_s3_event(record) at time t; fails: send_message raises. The result
\* tells whether the function raised, how far it got, what the key parsed to
\* and the message it sent
ProcessS3Event(record, fails, t) ==
  LET s3_event == record["s3"]
      bucket_name == s3_event["bucket"]["name"]
      object_key == s3_event["object"]["key"]
      event_name == record["eventName"]
      user_info == ExtractUserInfoFromKey(object_key)
  IN IF ~StartsWith(event_name, StrObjectCreated)
       THEN [raised |-> FALSE, outcome |-> "skipped", user_info |-> <<>>, sent |-> <<>>]
     ELSE IF IsNone(user_info)
       THEN [raised |-> FALSE, outcome |-> "no_user_info", user_info |-> <<>>, sent |-> <<>>]
     ELSE IF "size" \notin DOMAIN s3_event["object"] \/ "eventTime" \notin DOMAIN record
       THEN [raised |-> TRUE, outcome |-> "KeyError", user_info |-> user_info, sent |-> <<>>]
     ELSE IF fails
       THEN [raised |-> TRUE, outcome |-> "send_failed", user_info |-> user_info, sent |-> <<>>]
     ELSE [raised |-> FALSE, outcome |-> "sent", user_info |-> user_info,
           sent |-> <<[MessageBody(bucket_name, object_key, s3_event["object"]["size"],
                                   event_name, t)
                        EXCEPT !.event_timestamp = record["eventTime"]]>>]

\* The send_message call of the i-th record of an event
SendLabel == <<"send1", "send2", "send3", "send4">>

\* main(event, context) of the Ingestion Adapter: the records in order; the
\* first exception ends the loop and is answered with 500: the handler
\* returns in either case
IngestionMain(event, F, t) ==
  LET records == event["Records"]
      RECURSIVE loop(_, _, _)
      loop(i, steps, sent) ==
        IF i > Len(records)
        THEN [completed |-> "returned", statusCode |-> 200, steps |-> steps, sent |-> sent]
        ELSE LET step == ProcessS3Event(records[i], SendLabel[i] \in F, t)
             IN IF step.raised
                THEN [completed |-> "returned", statusCode |-> 500,
                      steps |-> Append(steps, step), sent |-> sent]
                ELSE loop(i + 1, Append(steps, step), sent \o step.sent)
  IN loop(1, <<>>, <<>>)

\* The notifications of the model: what the bucket sends for an object
\* event (a removal carries no size)
FileAbc == <<"a", "b", "c", ".", "j", "p", "g">>
KeyTwoParts == StrUploads \o <<"/">> \o FileAbc
KeyFourParts == StrUploads \o <<"/">> \o U1 \o <<"/", "x", "/">> \o FileAbc
KeyOtherPrefix == <<"t", "m", "p", "/">> \o U1 \o <<"/">> \o FileAbc
KeyNoUser == StrUploads \o <<"/", "/">> \o FileAbc
KeyNoFile == StrUploads \o <<"/">> \o U2 \o <<"/">>

Notification(event_name, key, size) ==
  [eventName |-> event_name, eventTime |-> StartTime,
   s3 |-> [bucket |-> [name |-> "input-bucket"], object |-> [key |-> key, size |-> size]]]

RemovalNotification(key) ==
  [eventName |-> EvDelete, eventTime |-> StartTime,
   s3 |-> [bucket |-> [name |-> "input-bucket"], object |-> [key |-> key]]]

BatchNotifications ==
  {Notification(EvPut, KeyAbc, 2000), Notification(EvPut, KeyNoUser, 2000),
   RemovalNotification(KeyAbc)}

SingleNotifications ==
  BatchNotifications
    \cup {Notification(EvPut, k, 2000) : k \in {KeyTwoParts, KeyFourParts, KeyOtherPrefix}}
    \cup {Notification(EvCopy, KeyPic, 5000), Notification(EvPut, KeyNoFile, 0),
          Notification(EvPut, FileAbc, 2000), RemovalNotification(KeyTwoParts)}

IngestEvents ==
  {[Records |-> <<n>>] : n \in SingleNotifications}
    \cup {[Records |-> b] : b \in UNION {[1..k -> BatchNotifications] : k \in 2..MaxRecords}}

\* One invocation of the Ingestion Adapter
Ingest(event) ==
  LET res(F) == IngestionMain(event, F, StartTime + now)
  IN /\ Len(published) < MaxPublished
     /\ \E F \in FaultPlans({SendLabel[i] : i \in 1..Len(event["Records"])}, res) :
          /\ faults' = faults + Cardinality(F)
          /\ published' = published \o res(F).sent
          /\ last' = [op |-> "ingestion", event |-> event, t |-> now, F |-> F, out |-> res(F)]
     /\ UNCHANGED <<now, queue, deliveries, inv, runs, store, objects, writeLog, starts>>

(***************************************************************************)
(* Orchestrator (orchestrator/main.py)                                     *)
(***************************************************************************)
RequiredFields == {"image_id", "bucket_name", "user_id", "upload_timestamp", "file_size"}

\* int(s) for a string of decimal digits
RECURSIVE ParseInt(_)
ParseInt(s) ==
  LET d == <<"0", "1", "2", "3", "4", "5", "6", "7", "8", "9">>
      value(c) == (CHOOSE i \in DOMAIN d : d[i] = c) - 1
  IN IF Len(s) = 1 THEN value(s[1])
     ELSE 10 * ParseInt(SubSeq(s, 1, Len(s) - 1)) + value(s[Len(s)])

\* json.loads(record['body']) of a body that json.dumps wrote
JsonLoads(text) ==
  [json |-> TRUE,
   obj |-> [name \in DOMAIN text |->
              IF text[name].kind = "number" THEN ParseInt(text[name].text)
              ELSE text[name].text]]

\* json.loads and the five subscripted reads of process_sqs_message succeed
ParseOk(body) == body.json /\ RequiredFields \subseteq DOMAIN body.obj

\* The workflow input process_sqs_message builds at time t
WorkflowInput(obj, t) ==
  [image_id |-> obj["image_id"],
   bucket_name |-> obj["bucket_name"],
   user_id |-> obj["user_id"],
   user_email |-> Get(obj, "user_email", "unknown"),
   upload_timestamp |-> obj["upload_timestamp"],
   original_filename |-> Get(obj, "original_filename", StrUnknown),
   file_size |-> obj["file_size"],
   processing_start_time |-> t,
   status |-> "processing"]

\* hashlib.md5(image_id.encode()).hexdigest()[:8], tabulated for the uploads
Md5Hex8(image_id) ==
  CASE image_id = KeyAbc -> <<"9", "5", "c", "9", "b", "e", "b", "6">>
    [] image_id = KeyPic -> <<"d", "d", "f", "7", "f", "3", "8", "9">>
    [] image_id = KeyBig -> <<"b", "5", "6", "e", "8", "5", "1", "9">>

\* Mutant: the whole user_id goes into the name
ExecutionName_WholeUserId(user_id, image_id, timestamp) ==
  StrImg \o <<"-">> \o user_id \o <<"-">> \o Md5Hex8(image_id)
         \o <<"-">> \o Digits(timestamp)

\* f"img-{user_id[:8]}-{image_hash}-{timestamp}"
ExecutionName(user_id, image_id, timestamp) ==
  StrImg \o <<"-">> \o Take(user_id, 8) \o <<"-">> \o Md5Hex8(image_id)
         \o <<"-">> \o Digits(timestamp)

\* The engine's start call: rejected when the call fails or when an execution
\* of that name exists (its input differs in processing_start_time); else a
\* new execution whose handle carries the name
StartExecution(rs, name, input, fails) ==
  IF fails \/ (\E r \in 1..Len(rs) : rs[r].name = name)
  THEN [ok |-> FALSE, runs |-> rs, handle |-> NoStr]
  ELSE [ok |-> TRUE,
        runs |-> Append(rs, [name |-> name, input |-> input, stage |-> "validation"]),
        handle |-> name]

\* main(): an exception of process_sqs_message is caught and answered with a
\* 500 body; the handler itself always returns
MainCompletion(raised) ==
  [completed |-> "returned", statusCode |-> IF raised THEN 500 ELSE 200]

\* The queue's reaction to the end of an invocation: a returned handler has
\* its batch deleted, a handler that raised has it made visible again
Release(q, i, completed) ==
  [m \in MsgIds |->
     IF q[m].by = i
     THEN (IF completed = "returned" THEN Deleted ELSE Visible)
     ELSE q[m]]

\* Mutant: the record names the image instead of the run
OrchestratorWrite_RecordsImageId(image_id, status, execution_arn, t) ==
  [key |-> image_id,
   attrs |-> [status |-> status, updated_at |-> t, execution_arn |-> image_id]]

\* update_dynamodb_status(image_id, user_id, status, execution_arn)
OrchestratorWrite(image_id, status, execution_arn, t) ==
  [key |-> image_id,
   attrs |-> IF execution_arn # NoStr
             THEN [status |-> status, updated_at |-> t, execution_arn |-> execution_arn]
             ELSE [status |-> status, updated_at |-> t]]

RECURSIVE Sum(_, _)
Sum(f, S) == IF S = {} THEN 0 ELSE LET x == CHOOSE y \in S : TRUE IN f[x] + Sum(f, S \ {x})

Delivered == Sum(deliveries, MsgIds)

Batches ==
  LET avail == {m \in MsgIds : queue[m].st = "visible"}
  IN {b \in UNION {[1..n -> avail] : n \in 1..MaxBatch} :
        /\ \A x, y \in DOMAIN b : x # y => b[x] # b[y]
        /\ Delivered + Len(b) <= MaxDeliveries}

\* The queue hands a batch to an idle invocation
Receive(i) ==
  /\ inv[i].pc = "idle"
  /\ \E b \in Batches :
       /\ inv' = [inv EXCEPT ![i] = [pc |-> "start", batch |-> b, idx |-> 1, handle |-> NoStr,
                                      steps |-> <<>>]]
       /\ queue' = [m \in MsgIds |-> IF \E x \in DOMAIN b : b[x] = m THEN InFlight(i) ELSE queue[m]]
       /\ deliveries' = [m \in MsgIds |->
                           IF \E x \in DOMAIN b : b[x] = m THEN deliveries[m] + 1 ELSE deliveries[m]]
  /\ UNCHANGED <<now, runs, store, objects, writeLog, last, faults, published, starts>>

\* What process_sqs_message did for the message at position idx: whether it
\* called the engine, under which name, the handle it got, whether it
\* called update_item and whether it raised
MessageStep(msg, called, name, handle, updated, raised) ==
  [msg |-> msg, called |-> called, name |-> name, handle |-> handle,
   updated |-> updated, raised |-> raised]

\* The handler ends: main() returns and the queue settles the batch; steps
\* holds what the invocation did for each message it reached
Finish(i, raised, cause, steps) ==
  LET done == MainCompletion(raised)
  IN /\ inv' = [inv EXCEPT ![i] = IdleInv]
     /\ queue' = Release(queue, i, done.completed)
     /\ last' = [op |-> "orchestrator", inv |-> i, batch |-> inv[i].batch,
                 idx |-> inv[i].idx, cause |-> cause, steps |-> steps,
                 completed |-> done.completed, statusCode |-> done.statusCode]

\* Mutant: the loop of main() goes on with the next record after a failure
MainLoop_ContinuesAfterFailure(raised, idx, n) ==
  IF idx < n THEN "next" ELSE "end"

\* The loop of main() after process_sqs_message ended for record idx of n:
\* an exception leaves the loop, otherwise the next record is taken
MainLoop(raised, idx, n) ==
  IF raised THEN "end"
  ELSE IF idx < n THEN "next" ELSE "end"

\* main() after process_sqs_message ended for the current record
Advance(i, raised, cause, steps) ==
  IF MainLoop(raised, inv[i].idx, Len(inv[i].batch)) = "next"
  THEN /\ inv' = [inv EXCEPT ![i].pc = "start", ![i].idx = @ + 1,
                             ![i].handle = NoStr, ![i].steps = steps]
       /\ UNCHANGED <<queue, last>>
  ELSE Finish(i, raised, cause, steps)

\* Mutant: a failure of update_item is raised to the caller
UpdateDynamodbStatus_Raises(image_id, status, execution_arn, fails, t) ==
  IF fails THEN [raised |-> TRUE, writes |-> <<>>]
  ELSE [raised |-> FALSE, writes |-> <<OrchestratorWrite(image_id, status, execution_arn, t)>>]

\* update_dynamodb_status: an error of update_item is logged, never raised
UpdateDynamodbStatus(image_id, status, execution_arn, fails, t) ==
  IF fails THEN [raised |-> FALSE, writes |-> <<>>]
  ELSE [raised |-> FALSE, writes |-> <<OrchestratorWrite(image_id, status, execution_arn, t)>>]

\* process_sqs_message up to the return of start_workflow
OrchStart(i) ==
  /\ inv[i].pc = "start"
  /\ LET msg == inv[i].batch[inv[i].idx]
         body == MsgPool[msg]
     IN IF ~ParseOk(body)
        THEN /\ Advance(i, TRUE, "malformed",
                        Append(inv[i].steps, MessageStep(msg, FALSE, NoStr, NoStr, "none", TRUE)))
             /\ UNCHANGED <<runs, faults, starts>>
        ELSE \E F \in SUBSET {"start"} :
               LET input == WorkflowInput(body.obj, now)
                   name == ExecutionName(input.user_id, input.image_id, StartTime + now)
                   res == StartExecution(runs, name, input, "start" \in F)
               IN /\ Cardinality(F) <= MaxFaults - faults
                  /\ faults' = faults + Cardinality(F)
                  /\ runs' = res.runs
                  /\ starts' = Append(starts, [name |-> name, msg |-> msg, inv |-> i,
                                               t |-> now, ok |-> res.ok])
                  /\ IF res.ok
                     THEN /\ inv' = [inv EXCEPT ![i].pc = "write", ![i].handle = res.handle]
                          /\ UNCHANGED <<queue, last>>
                     ELSE Advance(i, TRUE, "engine",
                                  Append(inv[i].steps,
                                         MessageStep(msg, TRUE, name, NoStr, "none", TRUE)))
  /\ UNCHANGED <<now, deliveries, store, objects, writeLog, published>>

\* process_sqs_message from update_dynamodb_status on, and main()'s loop step
OrchWrite(i) ==
  /\ inv[i].pc = "write"
  /\ \E F \in SUBSET {"db"} :
       LET msg == inv[i].batch[inv[i].idx]
           obj == MsgPool[msg].obj
           upd == UpdateDynamodbStatus(obj["image_id"], "processing", inv[i].handle,
                                       "db" \in F, now)
           steps == Append(inv[i].steps,
                           MessageStep(msg, TRUE, inv[i].handle, inv[i].handle,
                                       IF "db" \in F THEN "failed" ELSE "written",
                                       upd.raised))
       IN /\ Cardinality(F) <= MaxFaults - faults
          /\ faults' = faults + Cardinality(F)
          /\ store' = ApplyWrites(store, upd.writes)
          /\ writeLog' = writeLog \cup LogOf("orchestrator", obj["image_id"], upd.writes)
          /\ Advance(i, upd.raised, IF upd.raised THEN "store" ELSE "none", steps)
  /\ UNCHANGED <<now, deliveries, runs, objects, published, starts>>

\* At-least-once delivery: a message in flight becomes visible again
VisibilityTimeout(m) ==
  /\ queue[m].st = "inflight"
  /\ Delivered < MaxDeliveries
  /\ queue' = [queue EXCEPT ![m] = Visible]
  /\ UNCHANGED <<now, deliveries, inv, runs, store, objects, writeLog, last, faults, published, starts>>

Tick ==
  /\ now < MaxClock
  /\ now' = now + 1
  /\ UNCHANGED <<queue, deliveries, inv, runs, store, objects, writeLog, last, faults, published, starts>>

(***************************************************************************)
(* Validation stage (validation/main.py)                                   *)
(***************************************************************************)
MAX_FILE_SIZE == 10 * 1024 * 1024
ALLOWED_FORMATS == {"jpeg", "jpg", "png", "gif"}

SOI == <<255, 216>>
EOI == <<255, 217>>
PngSignature == <<137, 80, 78, 71, 13, 10, 26, 10>>
Gif87a == <<71, 73, 70, 56, 55, 97>>
Gif89a == <<71, 73, 70, 56, 57, 97>>

\* imghdr.what(None, h=image_data): the tests of the standard library in
\* their order; "none" stands for None
ImghdrWhat(head) ==
  IF Len(head) >= 10 /\ SubSeq(head, 7, 10) \in {<<74, 70, 73, 70>>, <<69, 120, 105, 102>>}
    THEN "jpeg"
  ELSE IF Take(head, 4) = <<255, 216, 255, 219>> THEN "jpeg"
  ELSE IF StartsWith(head, PngSignature) THEN "png"
  ELSE IF Take(head, 6) \in {Gif87a, Gif89a} THEN "gif"
  ELSE IF Take(head, 2) \in {<<77, 77>>, <<73, 73>>} THEN "tiff"
  ELSE IF StartsWith(head, <<66, 77>>) THEN "bmp"
  ELSE IF StartsWith(head, <<82, 73, 70, 70>>) /\ Len(head) >= 12
          /\ SubSeq(head, 9, 12) = <<87, 69, 66, 80>> THEN "webp"
  ELSE "none"

\* Mutant: a PNG must also end with the last bytes of its IEND chunk
ValidateImageHeaders_PngChecksTail(data, format_type) ==
  IF data.size < 8 THEN FALSE
  ELSE IF format_type \in {"jpeg", "jpg"} THEN Take(data.head, 2) = SOI /\ data.tail = EOI
  ELSE IF format_type = "png" THEN Take(data.head, 8) = PngSignature /\ data.tail = <<96, 130>>
  ELSE IF format_type = "gif" THEN Take(data.head, 6) \in {Gif87a, Gif89a}
  ELSE TRUE

\* validate_image_headers(image_data, format_type)
ValidateImageHeaders(data, format_type) ==
  IF data.size < 8 THEN FALSE
  ELSE IF format_type \in {"jpeg", "jpg"} THEN Take(data.head, 2) = SOI /\ data.tail = EOI
  ELSE IF format_type = "png" THEN Take(data.head, 8) = PngSignature
  ELSE IF format_type = "gif" THEN Take(data.head, 6) \in {Gif87a, Gif89a}
  ELSE TRUE

\* Mutant: a payload of exactly the ceiling is rejected too
ValidateImage_CeilingRejected(data) ==
  LET image_format == ImghdrWhat(data.head)
  IN IF data.size >= MAX_FILE_SIZE
       THEN [is_valid |-> FALSE, error |-> "File size exceeds maximum allowed size"]
     ELSE IF image_format = "none" \/ image_format \notin ALLOWED_FORMATS
       THEN [is_valid |-> FALSE, error |-> "Invalid file format"]
     ELSE IF ~ValidateImageHeaders(data, image_format)
       THEN [is_valid |-> FALSE, error |-> "Invalid image file header"]
     ELSE [is_valid |-> TRUE,
           image_info |-> [format |-> image_format, size_bytes |-> data.size,
                           dimensions_validated |-> FALSE]]

\* validate_image(image_data, image_id)
ValidateImage(data) ==
  LET image_format == ImghdrWhat(data.head)
  IN IF data.size > MAX_FILE_SIZE
       THEN [is_valid |-> FALSE, error |-> "File size exceeds maximum allowed size"]
     ELSE IF image_format = "none" \/ image_format \notin ALLOWED_FORMATS
       THEN [is_valid |-> FALSE, error |-> "Invalid file format"]
     ELSE IF ~ValidateImageHeaders(data, image_format)
       THEN [is_valid |-> FALSE, error |-> "Invalid image file header"]
     ELSE [is_valid |-> TRUE,
           image_info |-> [format |-> image_format, size_bytes |-> data.size,
                           dimensions_validated |-> FALSE]]

\* update_validation_status(image_id, status, validation_result)
ValidationWrite(image_id, status, validation_result, t) ==
  [key |-> image_id,
   attrs |-> [status |-> status, validation_result |-> validation_result, updated_at |-> t]]

\* Mutant: the except clause records the status of a policy rejection
ValidationExcept_RecordsFailed(image_id, first, F, reason, t) ==
  LET w == ValidationWrite(image_id, "validation_failed", [error |-> reason], t)
  IN [raised |-> TRUE, reason |-> reason,
      attempted |-> Append(first.attempted, "validation_failed"),
      writes |-> IF "db2" \in F THEN first.writes ELSE Append(first.writes, w)]

\* The except clause of main(): record validation_error, then re-raise
ValidationExcept(image_id, first, F, reason, t) ==
  LET w == ValidationWrite(image_id, "validation_error", [error |-> reason], t)
  IN [raised |-> TRUE, reason |-> reason,
      attempted |-> Append(first.attempted, "validation_error"),
      writes |-> IF "db2" \in F THEN first.writes ELSE Append(first.writes, w)]

\* main(event, context) of the Validation stage; F holds the calls that fail:
\* "get" the download, "db1" the status update of the try block, "db2" the
\* one of the except clause
ValidationMain(event, F, t) ==
  LET none == [attempted |-> <<>>, writes |-> <<>>]
  IN IF "image_id" \notin DOMAIN event
       THEN [raised |-> TRUE, reason |-> "KeyError", attempted |-> <<>>, writes |-> <<>>]
     ELSE IF ~({"bucket_name", "user_id", "user_email"} \subseteq DOMAIN event)
       THEN ValidationExcept(event["image_id"], none, F, "KeyError", t)
     ELSE IF "get" \in F \/ event["image_id"] \notin StoredKeys
             \/ InputObject(event["image_id"]).size = 0
       THEN ValidationExcept(event["image_id"], none, F, "Failed to download image", t)
     ELSE
       LET image_id == event["image_id"]
           validation_result == ValidateImage(InputObject(image_id))
           status == IF validation_result.is_valid THEN "validated" ELSE "validation_failed"
           w == ValidationWrite(image_id, status, validation_result, t)
           first == [attempted |-> <<status>>,
                     writes |-> IF "db1" \in F THEN <<>> ELSE <<w>>]
       IN IF validation_result.is_valid
          THEN [raised |-> FALSE, reason |-> "validated",
                attempted |-> first.attempted, writes |-> first.writes]
          ELSE ValidationExcept(image_id, first, F, "Image validation failed", t)

(***************************************************************************)
(* Resize stage (resize/main.py)                                           *)
(***************************************************************************)
\* Mutant: the second box repeats the first
RESIZE_DIMENSIONS_Repeated == <<<<800, 600>>, <<800, 600>>, <<400, 300>>>>

RESIZE_DIMENSIONS == <<<<800, 600>>, <<1200, 900>>, <<400, 300>>>>

\* The id both image stages derive from the key: the second path segment
\* when the key has at least three, else the user_id of the event
ActualImageId(image_key, user_id) ==
  IF image_key # NoStr /\ Contains(image_key, "/")
  THEN LET path_parts == Split(image_key, "/")
       IN IF Len(path_parts) >= 3 THEN path_parts[2] ELSE user_id
  ELSE user_id

\* floor(log2(a / b)) for positive integers
RECURSIVE FloorLog2(_, _)
FloorLog2(a, b) ==
  IF a >= 2 * b THEN FloorLog2(a, 2 * b) + 1
  ELSE IF a < b THEN FloorLog2(2 * a, b) - 1
  ELSE 0

RECURSIVE Pow2(_)
Pow2(n) == IF n = 0 THEN 1 ELSE 2 * Pow2(n - 1)

\* 2^e mod h
RECURSIVE Pow2Mod(_, _)
Pow2Mod(e, h) == IF e = 0 THEN 1 % h ELSE (2 * Pow2Mod(e - 1, h)) % h

\* a * 2^s > b
ScaledGt(a, s, b) == IF s >= 0 THEN a * Pow2(s) > b ELSE a > b * Pow2(-s)

\* img_ratio = image.width / image.height is a binary64 division: the result
\* is m / 2^e with m the integer nearest to w * 2^e / h and e chosen so that
\* 2^52 <= w * 2^e / h < 2^53. RatioRem is the remainder r of w * 2^e by h:
\* the ratio is exact when r = 0, was rounded down by r/h units of 2^-e when
\* 2r < h and up by (h - r)/h units when 2r > h (2r = h needs h >= 2^53)
RatioExp(w, h) == 52 - FloorLog2(w, h)
RatioRem(w, h) == ((w % h) * Pow2Mod(RatioExp(w, h), h)) % h

\* k with 2^k < n <= 2^(k+1): the binary64 numbers just below the integer n
\* are 2^(k-52) apart, and a result nearer than 2^(k-53) to n rounds to n
BinadeBelow(n) == IF n = 1 THEN -1 ELSE FloorLog2(n - 1, 1)

\* int(height * img_ratio). The product is rounded to binary64 and then
\* truncated: floor(H * w / h), except that when H * w / h is an integer n
\* and the ratio was rounded down far enough (H * r / (h * 2^e) > 2^(k-53))
\* the product rounds to a number below n and truncates to n - 1
IntTimesRatio(H, w, h) ==
  LET n == (H * w) \div h
      r == RatioRem(w, h)
  IN IF /\ (H * w) % h = 0
        /\ r # 0
        /\ 2 * r < h
        /\ ScaledGt(H * r, 1 - BinadeBelow(n) + FloorLog2(w, h), h)
     THEN n - 1
     ELSE n

\* int(width / img_ratio): floor(W * h / w), except that when W * h / w is an
\* integer n and the ratio was rounded up far enough the quotient rounds to
\* a number below n and truncates to n - 1
IntOverRatio(W, w, h) ==
  LET n == (W * h) \div w
      r == RatioRem(w, h)
  IN IF /\ (W * h) % w = 0
        /\ 2 * r > h
        /\ ScaledGt(n * (h - r), 1 - BinadeBelow(n) + FloorLog2(w, h), w)
     THEN n - 1
     ELSE n

\* The size computed for one target box. img_ratio > target_ratio compares
\* two binary64 numbers and agrees with w/h > W/H (two different ratios of
\* integers below 2^26 are further apart than the rounding of either)
NewSize(w, h, box) ==
  IF w * box[2] > box[1] * h
  THEN <<box[1], IntOverRatio(box[1], w, h)>>
  ELSE <<IntTimesRatio(box[2], w, h), box[2]>>

\* What NewSize gives for each image of the input bucket and each box,
\* computed once
VariantSizes ==
  [key \in {k \in StoredKeys : InputObject(k).format # "NONE"} |->
     [k \in DOMAIN RESIZE_DIMENSIONS |->
        NewSize(InputObject(key).width, InputObject(key).height, RESIZE_DIMENSIONS[k])]]

\* The mode of the image handed to save(): RGBA, LA and P are pasted on a
\* white RGB background
ResizeSaveMode(mode) == IF mode \in {"RGBA", "LA", "P"} THEN "RGB" ELSE mode

\* The encoder chosen from the original format
FileExtension(original_format) ==
  IF original_format \in {"JPEG", "JPG"} THEN StrJpg
  ELSE IF original_format = "PNG" THEN StrPng
  ELSE StrJpg

ContentType(file_extension) == IF file_extension = StrPng THEN "image/png" ELSE "image/jpeg"

\* The format argument of save()
Encoder(file_extension) == IF file_extension = StrPng THEN "PNG" ELSE "JPEG"

\* Pillow's save(): the JPEG encoder refuses modes with alpha or a palette
SaveOk(file_extension, mode) ==
  file_extension = StrPng \/ mode \in {"RGB", "L", "CMYK", "1"}

\* Mutant: the base name keeps the extension of the file name
BaseName_KeepsExtension(original_filename, actual_image_id) ==
  IF original_filename # StrImage THEN original_filename ELSE actual_image_id

\* base_name of both image stages
BaseName(original_filename, actual_image_id) ==
  IF original_filename # StrImage THEN SplitextRoot(original_filename) ELSE actual_image_id

\* Mutant: the two dimensions are swapped in the key
ResizeOutputKey_HeightFirst(actual_image_id, base_name, size, file_extension) ==
  StrResized \o <<"/">> \o actual_image_id \o <<"/">> \o base_name \o <<"_">>
             \o Digits(size[2]) \o <<"x">> \o Digits(size[1]) \o <<".">> \o file_extension

\* f"resized/{actual_image_id}/{base_name}_{new_width}x{new_height}.{file_extension}"
ResizeOutputKey(actual_image_id, base_name, size, file_extension) ==
  StrResized \o <<"/">> \o actual_image_id \o <<"/">> \o base_name \o <<"_">>
             \o Digits(size[1]) \o <<"x">> \o Digits(size[2]) \o <<".">> \o file_extension

\* Mutant: only the variant processed last is recorded
ResizeSuccessWrite_LastVariantOnly(actual_image_id, processed_images, t) ==
  [key |-> actual_image_id,
   attrs |-> [processing_status |-> "resized",
              resize_results |-> <<[key |-> processed_images[Len(processed_images)].key,
                                    size |-> processed_images[Len(processed_images)].size,
                                    format |-> processed_images[Len(processed_images)].format]>>,
              updated_at |-> t]]

\* The update of the success path
ResizeSuccessWrite(actual_image_id, processed_images, t) ==
  [key |-> actual_image_id,
   attrs |-> [processing_status |-> "resized",
              resize_results |-> [k \in DOMAIN processed_images |->
                                    [key |-> processed_images[k].key,
                                     size |-> processed_images[k].size,
                                     format |-> processed_images[k].format]],
              updated_at |-> t]]

\* The update of an except clause of an image stage
FailureWrite(actual_image_id, status, error_msg, t) ==
  [key |-> actual_image_id,
   attrs |-> [processing_status |-> status, error_message |-> error_msg, updated_at |-> t]]

\* Mutant: a failure of the failure record is raised in place of the error
ResizeExcept_StatusErrorReplaces(actual_image_id, puts, F, error_msg, t) ==
  [raised |-> TRUE, reason |-> IF "dbfail" \in F THEN "update_item failed" ELSE error_msg,
   puts |-> puts, attempted |-> <<"resize_failed">>,
   writes |-> IF "dbfail" \in F THEN <<>>
              ELSE <<FailureWrite(actual_image_id, "resize_failed", error_msg, t)>>]

\* The except clause of main(): best-effort failure record, then raise
ResizeExcept(actual_image_id, puts, F, error_msg, t) ==
  [raised |-> TRUE, reason |-> error_msg, puts |-> puts, attempted |-> <<"resize_failed">>,
   writes |-> IF "dbfail" \in F THEN <<>>
              ELSE <<FailureWrite(actual_image_id, "resize_failed", error_msg, t)>>]

\* main(event, context) of the Resize stage; F holds the calls that fail:
\* "get", "put1".."put3" (one per variant), "db" the update of the try block,
\* "dbfail" the update of the except clause
ResizeMain(event, F, t) ==
  LET input_data == IF "input" \in DOMAIN event THEN event["input"] ELSE event
      image_key == Get(input_data, "image_id", NoStr)
      bucket_name == Get(input_data, "bucket_name", "")
      user_id == Get(input_data, "user_id", StrUnknown)
      original_filename == Get(input_data, "original_filename", StrImage)
      actual_image_id == ActualImageId(image_key, user_id)
  IN IF image_key = NoStr
       THEN ResizeExcept(actual_image_id, <<>>, F, "image_key is required", t)
     ELSE IF bucket_name = ""
       THEN ResizeExcept(actual_image_id, <<>>, F, "bucket_name is required", t)
     ELSE IF "get" \in F \/ image_key \notin StoredKeys
       THEN ResizeExcept(actual_image_id, <<>>, F, "get_object failed", t)
     ELSE
       LET image == InputObject(image_key)
           file_extension == FileExtension(image.format)
           base_name == BaseName(original_filename, actual_image_id)
           putLabel == <<"put1", "put2", "put3">>
           size == VariantSizes[image_key]
           key == [k \in DOMAIN RESIZE_DIMENSIONS |->
                     ResizeOutputKey(actual_image_id, base_name, size[k], file_extension)]
           encodes(k) == /\ size[k][1] > 0
                         /\ size[k][2] > 0
                         /\ SaveOk(file_extension, ResizeSaveMode(image.mode))
           broken == {k \in DOMAIN RESIZE_DIMENSIONS : ~encodes(k) \/ putLabel[k] \in F}
           stop == IF broken = {} THEN Len(RESIZE_DIMENSIONS) + 1
                   ELSE CHOOSE k \in broken : \A j \in broken : k <= j
           sizeStr == [k \in DOMAIN RESIZE_DIMENSIONS |->
                         Digits(size[k][1]) \o <<"x">> \o Digits(size[k][2])]
           puts == [k \in 1..(stop - 1) |->
                      [key |-> key[k],
                       object |-> [body |-> [format |-> Encoder(file_extension),
                                             mode |-> ResizeSaveMode(image.mode),
                                             size |-> size[k]],
                                   content_type |-> ContentType(file_extension),
                                   original_key |-> image_key,
                                   original_size |-> <<image.width, image.height>>,
                                   resized_size |-> sizeStr[k],
                                   user_id |-> user_id,
                                   processed_by |-> "lambda-resize",
                                   processing_date |-> t]]]
           processed_images ==
             [k \in 1..(stop - 1) |->
                [key |-> key[k],
                 size |-> sizeStr[k],
                 format |-> file_extension]]
       IN IF image.format = "NONE"
            THEN ResizeExcept(actual_image_id, <<>>, F, "cannot identify image file", t)
          ELSE IF stop <= Len(RESIZE_DIMENSIONS)
            THEN ResizeExcept(actual_image_id, puts, F,
                              IF encodes(stop) THEN "put_object failed" ELSE "cannot encode", t)
          ELSE IF "db" \in F
            THEN ResizeExcept(actual_image_id, puts, F, "update_item failed", t)
          ELSE [raised |-> FALSE, reason |-> "success", puts |-> puts,
                attempted |-> <<"resized">>,
                writes |-> <<ResizeSuccessWrite(actual_image_id, processed_images, t)>>]

(***************************************************************************)
(* Watermark stage (watermark/main.py)                                     *)
(***************************************************************************)
WATERMARK_TEXT == "PROCESSED"
WATERMARK_POSITION == "bottom-right"

\* f"{WATERMARK_TEXT} - {utcnow:%Y-%m-%d}": the text and the UTC day
WatermarkText(t) == [text |-> WATERMARK_TEXT, day |-> (StartTime + t) \div 86400]

\* Mutant: the centred origin is rounded towards zero
WatermarkOrigin_CenterTruncates(position, width, height, text_width, text_height) ==
  LET Half(n) == IF n < 0 THEN -((-n) \div 2) ELSE n \div 2
  IN CASE position = "top-left" -> <<10, 10>>
       [] position = "top-right" -> <<width - text_width - 10, 10>>
       [] position = "bottom-left" -> <<10, height - text_height - 10>>
       [] position = "center" -> <<Half(width - text_width), Half(height - text_height)>>
       [] OTHER -> <<width - text_width - 10, height - text_height - 10>>

\* The point handed to draw.text for the configured WATERMARK_POSITION, an
\* image of width x height and a text box of text_width x text_height;
\* Python's // rounds towards minus infinity, as \div does
WatermarkOrigin(position, width, height, text_width, text_height) ==
  CASE position = "top-left" -> <<10, 10>>
    [] position = "top-right" -> <<width - text_width - 10, 10>>
    [] position = "bottom-left" -> <<10, height - text_height - 10>>
    [] position = "center" -> <<(width - text_width) \div 2, (height - text_height) \div 2>>
    [] OTHER -> <<width - text_width - 10, height - text_height - 10>>

\* Mutant: the composite is never pasted on a background
WatermarkSaveMode_NeverFlattens(original_format) == "RGBA"

\* The mode of the image handed to save(): the RGBA composite, pasted on a
\* white RGB background only when the original format is JPEG
WatermarkSaveMode(original_format) ==
  IF original_format \in {"JPEG", "JPG"} THEN "RGB" ELSE "RGBA"

\* f"watermarked/{actual_image_id}/{base_name}_watermarked.{file_extension}"
WatermarkOutputKey(actual_image_id, base_name, file_extension) ==
  StrWatermarked \o <<"/">> \o actual_image_id \o <<"/">> \o base_name
                 \o <<"_">> \o StrWatermarked \o <<".">> \o file_extension

\* Mutant: the result names the folder of the output, not its key
WatermarkSuccessWrite_RecordsFolder(actual_image_id, output_key, file_extension, t) ==
  [key |-> actual_image_id,
   attrs |-> [processing_status |-> "watermarked",
              watermark_result |-> [key |-> StrWatermarked \o <<"/">> \o actual_image_id,
                                    watermark_text |-> WatermarkText(t),
                                    position |-> WATERMARK_POSITION,
                                    format |-> file_extension],
              updated_at |-> t]]

\* Mutant: the success update also resets the list of variants
WatermarkSuccessWrite_ClearsVariants(actual_image_id, output_key, file_extension, t) ==
  [key |-> actual_image_id,
   attrs |-> [processing_status |-> "watermarked",
              resize_results |-> <<>>,
              watermark_result |-> [key |-> output_key,
                                    watermark_text |-> WatermarkText(t),
                                    position |-> WATERMARK_POSITION,
                                    format |-> file_extension],
              updated_at |-> t]]

\* The update of the success path
WatermarkSuccessWrite(actual_image_id, output_key, file_extension, t) ==
  [key |-> actual_image_id,
   attrs |-> [processing_status |-> "watermarked",
              watermark_result |-> [key |-> output_key,
                                    watermark_text |-> WatermarkText(t),
                                    position |-> WATERMARK_POSITION,
                                    format |-> file_extension],
              updated_at |-> t]]

WatermarkExcept(actual_image_id, puts, F, error_msg, t) ==
  [raised |-> TRUE, reason |-> error_msg, puts |-> puts, attempted |-> <<"watermark_failed">>,
   writes |-> IF "dbfail" \in F THEN <<>>
              ELSE <<FailureWrite(actual_image_id, "watermark_failed", error_msg, t)>>]

\* main(event, context) of the Watermark stage; F holds the calls that fail:
\* "get", "put", "db" the update of the try block, "dbfail" the one of the
\* except clause. encoded is the image handed to save(), when one was
WatermarkMain(event, F, t) ==
  LET input_data == IF "input" \in DOMAIN event THEN event["input"] ELSE event
      image_key == Get(input_data, "image_id", NoStr)
      bucket_name == Get(input_data, "bucket_name", "")
      user_id == Get(input_data, "user_id", StrUnknown)
      original_filename == Get(input_data, "original_filename", StrImage)
      actual_image_id == ActualImageId(image_key, user_id)
      none == [encoded |-> <<>>]
  IN IF image_key = NoStr
       THEN none @@ WatermarkExcept(actual_image_id, <<>>, F, "image_key is required", t)
     ELSE IF bucket_name = ""
       THEN none @@ WatermarkExcept(actual_image_id, <<>>, F, "bucket_name is required", t)
     ELSE IF "get" \in F \/ image_key \notin StoredKeys
       THEN none @@ WatermarkExcept(actual_image_id, <<>>, F, "get_object failed", t)
     ELSE
       LET image == InputObject(image_key)
           file_extension == FileExtension(image.format)
           base_name == BaseName(original_filename, actual_image_id)
           output_key == WatermarkOutputKey(actual_image_id, base_name, file_extension)
           encoded == [format |-> Encoder(file_extension),
                       mode |-> WatermarkSaveMode(image.format),
                       size |-> <<image.width, image.height>>]
           put == [key |-> output_key,
                   object |-> [body |-> encoded,
                               content_type |-> ContentType(file_extension),
                               original_key |-> image_key,
                               original_size |-> <<image.width, image.height>>,
                               watermark_text |-> WatermarkText(t),
                               watermark_position |-> WATERMARK_POSITION,
                               user_id |-> user_id,
                               processed_by |-> "lambda-watermark",
                               processing_date |-> t]]
           saved == [encoded |-> <<encoded>>]
       IN IF image.format = "NONE"
            THEN none @@ WatermarkExcept(actual_image_id, <<>>, F, "cannot identify image file", t)
          ELSE IF ~SaveOk(file_extension, WatermarkSaveMode(image.format))
            THEN saved @@ WatermarkExcept(actual_image_id, <<>>, F, "cannot encode", t)
          ELSE IF "put" \in F
            THEN saved @@ WatermarkExcept(actual_image_id, <<>>, F, "put_object failed", t)
          ELSE IF "db" \in F
            THEN saved @@ WatermarkExcept(actual_image_id, <<put>>, F, "update_item failed", t)
          ELSE [raised |-> FALSE, reason |-> "success", puts |-> <<put>>,
                encoded |-> <<encoded>>,
                attempted |-> <<"watermarked">>,
                writes |-> <<WatermarkSuccessWrite(actual_image_id, output_key,
                                                   file_extension, t)>>]

(***************************************************************************)
(* Workflow Engine: validation, then resize, then watermark                *)
(***************************************************************************)
\* The event a stage is invoked with: the context the run was started with
StageEvent(run) == run.input

\* The stage the engine dispatches after one has returned or raised
NextStage(stage, raised) ==
  IF raised THEN "failed"
  ELSE CASE stage = "validation" -> "resize"
         [] stage = "resize" -> "watermark"
         [] stage = "watermark" -> "succeeded"

\* put_object, for each upload a handler made, in order
RECURSIVE PutAll(_, _)
PutAll(objs, puts) ==
  IF puts = <<>> THEN objs
  ELSE PutAll([k \in (DOMAIN objs) \cup {puts[1].key} |->
                 IF k = puts[1].key THEN puts[1].object ELSE objs[k]],
              Tail(puts))

\* The engine invokes the stage a run is waiting for; the whole handler runs
Dispatch(r, stage, labels, res(_)) ==
  /\ runs[r].stage = stage
  /\ \E F \in FaultPlans(labels, res) :
       LET out == res(F)
       IN /\ faults' = faults + Cardinality(F)
          /\ store' = ApplyWrites(store, out.writes)
          /\ writeLog' = writeLog \cup LogOf(stage, runs[r].input.image_id, out.writes)
          /\ objects' = PutAll(objects, out.puts)
          /\ runs' = [runs EXCEPT ![r].stage = NextStage(stage, out.raised)]
          /\ last' = [op |-> stage, run |-> r, image |-> runs[r].input.image_id,
                      event |-> StageEvent(runs[r]), t |-> now, F |-> F, out |-> out]
  /\ UNCHANGED <<now, queue, deliveries, inv, published, starts>>

StageValidation(r) ==
  LET res(F) == [puts |-> <<>>] @@ ValidationMain(StageEvent(runs[r]), F, now)
  IN Dispatch(r, "validation", {"get", "db1", "db2"}, res)

StageResize(r) ==
  LET res(F) == ResizeMain(StageEvent(runs[r]), F, now)
  IN Dispatch(r, "resize", {"get", "put1", "put2", "put3", "db", "dbfail"}, res)

StageWatermark(r) ==
  LET res(F) == WatermarkMain(StageEvent(runs[r]), F, now)
  IN Dispatch(r, "watermark", {"get", "put", "db", "dbfail"}, res)

(***************************************************************************)
(* Retrieval service (image_retrieval/main.py)                             *)
(***************************************************************************)
T1 == <<"t", "1">>
T2 == <<"t", "2">>
StrAbc == <<"a", "b", "c">>
StrPic == <<"p", "i", "c">>

\* JSON null, and the empty dict
Null == [null |-> TRUE]
EmptyMap == [a \in {} |-> 0]

\* The identity provider: the access tokens it knows and their user names
CognitoUsers == [t \in {T1, T2} |-> IF t = T1 THEN U1 ELSE U2]

\* validate_token(token): None (here Null) when get_user fails
ValidateToken(token, fails) ==
  IF fails \/ token \notin DOMAIN CognitoUsers THEN Null
  ELSE [sub |-> CognitoUsers[token], email |-> "user@example.com", email_verified |-> TRUE]

CorsHeaders ==
  [content_type |-> "application/json", allow_origin |-> "*",
   allow_headers |-> "Content-Type,Authorization", allow_methods |-> "GET,OPTIONS"]

\* create_response(status_code, body)
CreateResponse(status_code, body) ==
  [statusCode |-> status_code, headers |-> CorsHeaders, body |-> body]

\* The except clause of handle_image_retrieval
RetrievalExcept(calls) ==
  [response |-> CreateResponse(500, [error |-> "Internal server error"]), calls |-> calls]

\* Mutant: the key has no folder of the user
RetrievalKey_NoUserFolder(user_id, image_id, file_extension) ==
  StrWatermarked \o <<"/">> \o image_id \o <<"_">> \o StrWatermarked \o <<".">> \o file_extension

\* f"watermarked/{user_id}/{image_id}_watermarked.{file_extension}"
RetrievalKey(user_id, image_id, file_extension) ==
  StrWatermarked \o <<"/">> \o user_id \o <<"/">> \o image_id
                 \o <<"_">> \o StrWatermarked \o <<".">> \o file_extension

\* Mutant: the URL is signed without looking at the result of the check
CheckAndSign_SignsAbsent(objs, F, calls, image_id, user_id, file_extension, image_key) ==
  LET head == [api |-> "head_object", key |-> image_key]
      sign == [api |-> "generate_presigned_url", key |-> image_key]
  IN IF "head_other" \in F
       THEN RetrievalExcept(Append(calls, head))
     ELSE IF "head_client" \in F
       THEN [response |-> CreateResponse(500, [error |-> "Error checking image availability"]),
             calls |-> Append(calls, head)]
     ELSE [response |->
             CreateResponse(200, [image_id |-> image_id,
                                  user_id |-> user_id,
                                  processed_image |->
                                    [key |-> image_key,
                                     download_url |-> [operation |-> "get_object",
                                                       key |-> image_key,
                                                       expires_in |-> 3600],
                                     extension |-> file_extension]]),
           calls |-> Append(Append(calls, head), sign)]

\* Mutant: every ClientError of the check is answered as not-found
CheckAndSign_AnyErrorNotFound(objs, F, calls, image_id, user_id, file_extension, image_key) ==
  LET head == [api |-> "head_object", key |-> image_key]
      sign == [api |-> "generate_presigned_url", key |-> image_key]
  IN IF "head_other" \in F
       THEN RetrievalExcept(Append(calls, head))
     ELSE IF "head_client" \in F \/ image_key \notin DOMAIN objs
       THEN [response |-> CreateResponse(404, [error |-> "Image not found",
                                               image_id |-> image_id,
                                               user_id |-> user_id,
                                               searched_path |-> image_key]),
             calls |-> Append(calls, head)]
     ELSE [response |->
             CreateResponse(200, [image_id |-> image_id,
                                  user_id |-> user_id,
                                  processed_image |->
                                    [key |-> image_key,
                                     download_url |-> [operation |-> "get_object",
                                                       key |-> image_key,
                                                       expires_in |-> 3600],
                                     extension |-> file_extension]]),
           calls |-> Append(Append(calls, head), sign)]

\* The part of handle_image_retrieval from the existence check on
CheckAndSign(objs, F, calls, image_id, user_id, file_extension, image_key) ==
  LET head == [api |-> "head_object", key |-> image_key]
      sign == [api |-> "generate_presigned_url", key |-> image_key]
  IN IF "head_other" \in F
       THEN RetrievalExcept(Append(calls, head))
     ELSE IF "head_client" \in F
       THEN [response |-> CreateResponse(500, [error |-> "Error checking image availability"]),
             calls |-> Append(calls, head)]
     ELSE IF image_key \notin DOMAIN objs
       THEN [response |-> CreateResponse(404, [error |-> "Image not found",
                                               image_id |-> image_id,
                                               user_id |-> user_id,
                                               searched_path |-> image_key]),
             calls |-> Append(calls, head)]
     ELSE IF "presign" \in F
       THEN RetrievalExcept(Append(Append(calls, head), sign))
     ELSE [response |->
             CreateResponse(200, [image_id |-> image_id,
                                  user_id |-> user_id,
                                  processed_image |->
                                    [key |-> image_key,
                                     download_url |-> [operation |-> "get_object",
                                                       key |-> image_key,
                                                       expires_in |-> 3600],
                                     extension |-> file_extension]]),
           calls |-> Append(Append(calls, head), sign)]

\* handle_image_retrieval(event); F holds the calls that fail: "cognito",
\* "head_client" (a ClientError other than not-found), "head_other" (any
\* other exception of head_object), "presign"
HandleImageRetrieval(event, objs, F) ==
  LET headers == Get(event, "headers", EmptyMap)
      params == Get(event, "queryStringParameters", EmptyMap)
  IN IF headers = Null THEN RetrievalExcept(<<>>)
     ELSE
       LET auth_header == Get(headers, "Authorization", NoStr)
           token == Split(auth_header, " ")[2]
           user_info == ValidateToken(token, "cognito" \in F)
           cognito == <<[api |-> "get_user", key |-> token]>>
       IN IF ~StartsWith(auth_header, StrBearer)
            THEN [response |-> CreateResponse(401, [error |-> "Authorization header required"]),
                  calls |-> <<>>]
          ELSE IF user_info = Null
            THEN [response |-> CreateResponse(401, [error |-> "Invalid token"]),
                  calls |-> cognito]
          ELSE IF params = Null THEN RetrievalExcept(cognito)
          ELSE
            LET image_id == Get(params, "image_id", NoStr)
                user_id == user_info.sub
                file_extension == Get(params, "extension", StrJpg)
                image_key == RetrievalKey(user_id, image_id, file_extension)
            IN IF image_id = NoStr
                 THEN [response |-> CreateResponse(400, [error |-> "image_id parameter is required"]),
                       calls |-> cognito]
               ELSE CheckAndSign(objs, F, cognito, image_id, user_id, file_extension, image_key)

\* main(event, context) of the Retrieval service
RetrievalMain(event, objs, F) ==
  LET http_method == Get(event, "httpMethod", "")
  IN IF http_method = "GET" THEN HandleImageRetrieval(event, objs, F)
     ELSE IF http_method = "OPTIONS"
       THEN [response |-> CreateResponse(200, EmptyMap), calls |-> <<>>]
     ELSE [response |-> CreateResponse(405, [error |-> "Method not allowed"]), calls |-> <<>>]

\* The requests of the model
AuthValues == {StrBearer \o T1, StrBearer \o T2, StrBearer \o <<"z", "z">>,
               <<"B", "a", "s", "i", "c", " ", "t", "1">>}
HeaderValues == {EmptyMap} \cup {[Authorization |-> a] : a \in AuthValues}
ParamValues ==
  {Null, EmptyMap, [extension |-> StrPng], [image_id |-> NoStr], [image_id |-> StrAbc],
   [image_id |-> StrPic], [image_id |-> StrAbc, extension |-> StrPng],
   [image_id |-> StrPic, extension |-> StrPng],
   [image_id |-> StrAbc, user_id |-> U2], [image_id |-> StrAbc, user_id |-> U1]}
Requests ==
  {[httpMethod |-> "GET", headers |-> h, queryStringParameters |-> [image_id |-> StrAbc]] :
     h \in HeaderValues}
    \cup {[httpMethod |-> "GET", headers |-> [Authorization |-> StrBearer \o t],
           queryStringParameters |-> q] : t \in {T1, T2}, q \in ParamValues}
    \cup {[httpMethod |-> "GET", headers |-> h, queryStringParameters |-> q] :
            h \in {EmptyMap, [Authorization |-> StrBearer \o <<"z", "z">>]},
            q \in {Null, EmptyMap}}
    \cup {[httpMethod |-> "GET", headers |-> [Authorization |-> StrBearer \o T1]],
          [httpMethod |-> "GET", queryStringParameters |-> [image_id |-> StrAbc]]}
    \cup {[httpMethod |-> m, headers |-> EmptyMap, queryStringParameters |-> Null] :
            m \in {"OPTIONS", "POST"}}

\* One request to the Retrieval service
Retrieve(event) ==
  LET res(F) == RetrievalMain(event, objects, F)
  IN /\ \E F \in FaultPlans({"cognito", "head_client", "head_other", "presign"}, res) :
          /\ faults' = faults + Cardinality(F)
          /\ last' = [op |-> "retrieval", event |-> event, F |-> F, out |-> res(F)]
     /\ UNCHANGED <<now, queue, deliveries, inv, runs, store, objects, writeLog, published, starts>>

\* The Watermark handler invoked for an upload, with the context the
\* Orchestrator builds from its job message
InvokeWatermark(key) ==
  LET event == WorkflowInput(JobMessage(key).obj, now)
      res(F) == WatermarkMain(event, F, now)
  IN /\ \E F \in FaultPlans({"get", "put", "db", "dbfail"}, res) :
          LET out == res(F)
          IN /\ faults' = faults + Cardinality(F)
             /\ store' = ApplyWrites(store, out.writes)
             /\ writeLog' = writeLog \cup LogOf("watermark", key, out.writes)
             /\ objects' = PutAll(objects, out.puts)
             /\ last' = [op |-> "watermark", run |-> 0, image |-> key, event |-> event,
                         t |-> now, F |-> F, out |-> out]
     /\ UNCHANGED <<now, queue, deliveries, inv, runs, published, starts>>

\* A key under which the input bucket holds nothing
KeyGone == <<"u", "p", "l", "o", "a", "d", "s", "/", "u", "1", "/", "g", "o", "n", "e", ".", "j", "p", "g">>

\* The events the image stages are invoked with: the context the
\* Orchestrator builds for an object of the input bucket, bare or under
\* "input", and contexts that lack a required field
StageEvents ==
  LET context(key) == WorkflowInput(JobMessage(key).obj, now)
      without(f) == [g \in (DOMAIN context(KeyAbc)) \ {f} |-> context(KeyAbc)[g]]
  IN {context(key) : key \in StoredKeys}
       \cup {[input |-> context(key)] : key \in {KeyAbc, KeyPic}}
       \cup {without("image_id"), without("bucket_name"), without("original_filename")}

\* The events the Validation stage is invoked with: contexts of a valid, an
\* oversized and a non-image object, of a key the bucket does not hold, and
\* one that lacks user_email
ValidationEvents ==
  LET context(key) == WorkflowInput(JobMessage(key).obj, now)
  IN {context(key) : key \in {KeyAbc, KeyBig, KeyTxt}}
       \cup {[context(KeyAbc) EXCEPT !.image_id = KeyGone]}
       \cup {[g \in (DOMAIN context(KeyPic)) \ {"user_email"} |-> context(KeyPic)[g]]}

\* The image_id of an event, as the image stages read it
EventImage(event) ==
  Get(IF "input" \in DOMAIN event THEN event["input"] ELSE event, "image_id", NoStr)

\* One invocation of the Validation handler
InvokeValidation(event) ==
  LET res(F) == [puts |-> <<>>] @@ ValidationMain(event, F, now)
  IN /\ \E F \in FaultPlans({"get", "db1", "db2"}, res) :
          LET out == res(F)
          IN /\ faults' = faults + Cardinality(F)
             /\ store' = ApplyWrites(store, out.writes)
             /\ writeLog' = writeLog \cup LogOf("validation", EventImage(event), out.writes)
             /\ last' = [op |-> "validation", run |-> 0, image |-> EventImage(event),
                         event |-> event, t |-> now, F |-> F, out |-> out]
     /\ UNCHANGED <<now, queue, deliveries, inv, runs, objects, published, starts>>

\* One invocation of the Resize handler
InvokeResize(event) ==
  LET res(F) == ResizeMain(event, F, now)
  IN /\ \E F \in FaultPlans({"get", "put1", "put2", "put3", "db", "dbfail"}, res) :
          LET out == res(F)
          IN /\ faults' = faults + Cardinality(F)
             /\ store' = ApplyWrites(store, out.writes)
             /\ writeLog' = writeLog \cup LogOf("resize", EventImage(event), out.writes)
             /\ objects' = PutAll(objects, out.puts)
             /\ last' = [op |-> "resize", run |-> 0, image |-> EventImage(event),
                         event |-> event, t |-> now, F |-> F, out |-> out]
     /\ UNCHANGED <<now, queue, deliveries, inv, runs, published, starts>>

\* One invocation of the Watermark handler
InvokeWatermarkEvent(event) ==
  LET res(F) == WatermarkMain(event, F, now)
  IN /\ \E F \in FaultPlans({"get", "put", "db", "dbfail"}, res) :
          LET out == res(F)
          IN /\ faults' = faults + Cardinality(F)
             /\ store' = ApplyWrites(store, out.writes)
             /\ writeLog' = writeLog \cup LogOf("watermark", EventImage(event), out.writes)
             /\ objects' = PutAll(objects, out.puts)
             /\ last' = [op |-> "watermark", run |-> 0, image |-> EventImage(event),
                         event |-> event, t |-> now, F |-> F, out |-> out]
     /\ UNCHANGED <<now, queue, deliveries, inv, runs, published, starts>>

\* The Retrieval service and the Watermark stage alone: nothing is queued
InitRetrieval ==
  /\ now = 0
  /\ queue = [m \in MsgIds |-> Absent]
  /\ deliveries = [m \in MsgIds |-> 0]
  /\ inv = [i \in Invs |-> IdleInv]
  /\ runs = <<>>
  /\ store = EmptyStore
  /\ objects = EmptyStore
  /\ writeLog = {}
  /\ last = NoCall
  /\ faults = 0
  /\ published = <<>>
  /\ starts = <<>>

NextRetrieval ==
  \/ \E event \in Requests : Retrieve(event)
  \/ \E key \in UploadKeys : InvokeWatermark(key)

SpecRetrieval == InitRetrieval /\ [][NextRetrieval]_vars

(***************************************************************************)
(* The computations of the stages on their own, applied to inputs drawn    *)
(* from bounded sets                                                       *)
(***************************************************************************)
MaxSide == 15        \* largest width and height of an image to resize

\* Widths and heights of the images to resize: the small ones and one that is
\* longer than every box side
ImageSides == (1..MaxSide) \cup {3000}

\* The size computation of the Resize stage for a w x h image and the k-th box
ComputeNewSize(w, h, k) ==
  /\ last' = [op |-> "new_size", w |-> w, h |-> h, box |-> RESIZE_DIMENSIONS[k],
              out |-> NewSize(w, h, RESIZE_DIMENSIONS[k])]
  /\ UNCHANGED <<now, queue, deliveries, inv, runs, store, objects, writeLog, faults, published, starts>>

\* Values the WATERMARK_POSITION variable of the deployment can hold
Positions == {"top-left", "top-right", "bottom-left", "bottom-right", "center",
              "", "Center", "middle"}
ImageWidths == {1, 40, 41}
ImageHeights == {1, 30, 31}
TextWidths == {0, 7, 60}      \* the last is wider than every image
TextHeights == {0, 11}

\* The origin computation of the Watermark stage
ComputeOrigin(position, width, height, text_width, text_height) ==
  /\ last' = [op |-> "origin", position |-> position, width |-> width, height |-> height,
              text_width |-> text_width, text_height |-> text_height,
              out |-> WatermarkOrigin(position, width, height, text_width, text_height)]
  /\ UNCHANGED <<now, queue, deliveries, inv, runs, store, objects, writeLog, faults, published, starts>>

\* Payloads handed to validate_image: every pairing of the first and last
\* bytes of a JPEG, a PNG, a GIF and a text file, with lengths up to 11 MiB
\* (a payload is its length, its first twelve and its last two bytes)
PayloadSizes == {14, 3000, 10 * MiB - 1, 10 * MiB, 10 * MiB + 1, 11 * MiB}
\* Twelve bytes with JFIF at offset 6 that do not start with the SOI marker
JfifNoSoiHead == <<0, 0, 255, 224, 0, 16, 74, 70, 73, 70, 0, 1>>
Gif87Head == <<71, 73, 70, 56, 55, 97, 128, 2, 224, 1, 247, 0>>
Payloads ==
  [size : PayloadSizes,
   head : {JpegHead, PngHead, GifHead, TxtHead, JfifNoSoiHead, Gif87Head},
   tail : {JpegTail, PngTail, GifTail, TxtTail}]

\* The checks of the Validation stage on a payload
ComputeValidate(data) ==
  /\ last' = [op |-> "validate_image", data |-> data, out |-> ValidateImage(data)]
  /\ UNCHANGED <<now, queue, deliveries, inv, runs, store, objects, writeLog, faults, published, starts>>

MaxUserLen == 80     \* longest user_id of a job message

\* user_id values of job messages: the empty string, short ones, ones of 8
\* and 9 characters and the longest
UserIds ==
  LET long == [i \in 1..MaxUserLen |-> <<"u", "s", "e", "r", "-", "0", "1", "2", "3", "4">>[((i - 1) % 10) + 1]]
  IN {SubSeq(long, 1, n) : n \in {0, 2, 7, 8, 9, MaxUserLen - 1, MaxUserLen}}

\* Epoch seconds: the start of the epoch, the time of the behaviours, and
\* the largest second a 32-bit integer holds
Timestamps == {0, 9, 999999999, StartTime, 2147483647}

\* The run name start_workflow derives
ComputeExecutionName(user_id, image_id, timestamp) ==
  /\ last' = [op |-> "execution_name", user_id |-> user_id, image_id |-> image_id,
              timestamp |-> timestamp, out |-> ExecutionName(user_id, image_id, timestamp)]
  /\ UNCHANGED <<now, queue, deliveries, inv, runs, store, objects, writeLog, faults, published, starts>>

NextCompute ==
  \/ \E user_id \in UserIds, image_id \in UploadKeys, timestamp \in Timestamps :
       ComputeExecutionName(user_id, image_id, timestamp)
  \/ \E w, h \in ImageSides : \E k \in DOMAIN RESIZE_DIMENSIONS : ComputeNewSize(w, h, k)
  \/ \E data \in Payloads : ComputeValidate(data)
  \/ \E position \in Positions : \E width \in ImageWidths, height \in ImageHeights :
       \E text_width \in TextWidths, text_height \in TextHeights :
         ComputeOrigin(position, width, height, text_width, text_height)

SpecCompute == InitRetrieval /\ [][NextCompute]_vars

\* The image stages alone, invoked for the objects of the input bucket
MaxStageCalls == 1   \* a stage is invoked while fewer status writes are logged

NextStages ==
  \/ \E event \in ValidationEvents : Cardinality(writeLog) < MaxStageCalls /\ InvokeValidation(event)
  \/ \E event \in StageEvents : Cardinality(writeLog) < MaxStageCalls /\ InvokeResize(event)
  \/ \E event \in StageEvents : Cardinality(writeLog) < MaxStageCalls /\ InvokeWatermarkEvent(event)

SpecStages == InitRetrieval /\ [][NextStages]_vars

\* The Ingestion Adapter alone
NextIngestion == \E event \in IngestEvents : Ingest(event)

SpecIngestion == InitRetrieval /\ [][NextIngestion]_vars

Next ==
  \/ \E i \in Invs : Receive(i)
  \/ \E i \in Invs : OrchStart(i)
  \/ \E i \in Invs : OrchWrite(i)
  \/ \E m \in MsgIds : VisibilityTimeout(m)
  \/ \E r \in DOMAIN runs : StageValidation(r)
  \/ \E r \in DOMAIN runs : StageResize(r)
  \/ \E r \in DOMAIN runs : StageWatermark(r)
  \/ Tick

Spec == Init /\ [][Next]_vars

\* The stages alone, after one Orchestrator invocation has started a run for
\* every message of its batch of uploads and written their records
\* (the job messages of abc.jpg and pic.png, two uploads of one user)
PipelineMsgs == {1, 2}

StartedBatches ==
  {b \in UNION {[1..n -> PipelineMsgs] : n \in 1..MaxBatch} :
     \A x, y \in DOMAIN b : x # y => b[x] # b[y]}

RunOf(m) ==
  LET input == WorkflowInput(MsgPool[m].obj, 0)
  IN [name |-> ExecutionName(input.user_id, input.image_id, StartTime),
      input |-> input, stage |-> "validation"]

InitPipeline ==
  \E b \in StartedBatches :
    LET ws == [x \in DOMAIN b |->
                 OrchestratorWrite(ImageOf(b[x]), "processing", RunOf(b[x]).name, 0)]
    IN /\ now = 0
       /\ queue = [m \in MsgIds |-> IF \E x \in DOMAIN b : b[x] = m THEN Deleted ELSE Absent]
       /\ deliveries = [m \in MsgIds |-> IF \E x \in DOMAIN b : b[x] = m THEN 1 ELSE 0]
       /\ inv = [i \in Invs |-> IdleInv]
       /\ runs = [x \in DOMAIN b |-> RunOf(b[x])]
       /\ store = ApplyWrites(EmptyStore, ws)
       /\ objects = EmptyStore
       /\ writeLog = UNION {LogOf("orchestrator", ImageOf(b[x]), <<ws[x]>>) : x \in DOMAIN b}
       /\ last = [op |-> "orchestrator", inv |-> 1, batch |-> b, idx |-> Len(b),
                  cause |-> "none",
                  steps |-> [x \in DOMAIN b |->
                               MessageStep(b[x], TRUE, RunOf(b[x]).name, RunOf(b[x]).name,
                                           "written", FALSE)],
                  completed |-> "returned", statusCode |-> 200]
       /\ faults = 0
       /\ published = <<>>
       /\ starts = [x \in DOMAIN b |->
                      [name |-> RunOf(b[x]).name, msg |-> b[x], inv |-> 1, t |-> 0, ok |-> TRUE]]

NextPipeline ==
  \/ \E r \in DOMAIN runs : StageValidation(r)
  \/ \E r \in DOMAIN runs : StageResize(r)
  \/ \E r \in DOMAIN runs : StageWatermark(r)
  \/ Tick

SpecPipeline == InitPipeline /\ [][NextPipeline]_vars

\* The queue holds some of: the job messages of abc.jpg and pic.png, and
\* the body that is not JSON
OrchestratorMsgs == {1, 2, 4}

InitOrchestrator ==
  /\ now = 0
  /\ \E q \in SUBSET OrchestratorMsgs :
       /\ Cardinality(q) \in 1..MaxQueue
       /\ queue = [m \in MsgIds |-> IF m \in q THEN Visible ELSE Absent]
  /\ deliveries = [m \in MsgIds |-> 0]
  /\ inv = [i \in Invs |-> IdleInv]
  /\ runs = <<>>
  /\ store = EmptyStore
  /\ objects = EmptyStore
  /\ writeLog = {}
  /\ last = NoCall
  /\ faults = 0
  /\ published = <<>>
  /\ starts = <<>>

\* The queue and the Orchestrator alone: runs are started and never advance
NextOrchestrator ==
  \/ \E i \in Invs : Receive(i)
  \/ \E i \in Invs : OrchStart(i)
  \/ \E i \in Invs : OrchWrite(i)
  \/ \E m \in MsgIds : VisibilityTimeout(m)
  \/ Tick

SpecOrchestrator == InitOrchestrator /\ [][NextOrchestrator]_vars

(***************************************************************************)
(* Properties                                                              *)
(***************************************************************************)
StageOps == {"validation", "resize", "watermark"}

\* The processing status an attribute map shows, under either of the two
\* attribute names the components write
StatusesOf(rec) ==
  {rec[a] : a \in {"status", "processing_status"} \cap DOMAIN rec}

\* C1: for every uploaded image at most one start call succeeds, however
\* often its job message is delivered: no two executions of the engine are
\* for the same image.
C1_OneRunPerImage ==
  \A a, b \in DOMAIN runs :
    runs[a].input.image_id = runs[b].input.image_id => a = b

\* C2: every Status Store write made for one image targets the same record
\* key, whichever component makes it.
C2_OneRecordKeyPerImage ==
  \A w1, w2 \in writeLog : w1.image = w2.image => w1.key = w2.key

\* C3: when the job message of a valid upload is delivered once and no
\* dependency fails, the record the Orchestrator initialised ends with
\* processing status watermarked once the run has finished.
C3_FinalStatusWatermarked ==
  \A r \in DOMAIN runs :
    (/\ runs[r].stage = "succeeded"
     /\ InputObject(runs[r].input.image_id).format = "JPEG"
     /\ faults = 0
     /\ Delivered = 1
     /\ \A i \in Invs : inv[i].pc = "idle")
    => /\ runs[r].input.image_id \in DOMAIN store
       /\ "watermarked" \in StatusesOf(store[runs[r].input.image_id])

\* C4: an invocation that meets a malformed payload does not complete
\* normally, and its messages stay in the queue for redelivery.
C4_MalformedFailsInvocation ==
  (last.op = "orchestrator" /\ last.cause = "malformed")
  => /\ last.completed = "raised"
     /\ \A x \in DOMAIN last.batch : queue[last.batch[x]].st # "deleted"

\* C5: when the Validation stage rejects an image on policy grounds and its
\* status writes succeed, the status it leaves on the record is
\* validation_failed.
C5_PolicyRejectionLeavesValidationFailed ==
  (/\ last.op = "validation"
   /\ last.out.reason = "Image validation failed"
   /\ last.F = {})
  => /\ last.out.raised
     /\ last.image \in DOMAIN store
     /\ StatusesOf(store[last.image]) = {"validation_failed"}

\* C6: a failing Status Store update never changes the outcome of a stage:
\* the stage raises under failing status updates exactly when it raises
\* without them, so a stage whose artifacts are all uploaded still returns.
StatusLabels == {"db", "db1", "db2", "dbfail"}

StageMain(op, event, F, t) ==
  CASE op = "validation" -> ValidationMain(event, F, t)
    [] op = "resize" -> ResizeMain(event, F, t)
    [] op = "watermark" -> WatermarkMain(event, F, t)

C6_StatusFailureKeepsOutcome ==
  (last.op \in StageOps /\ last.F \subseteq StatusLabels)
  => last.out.raised = StageMain(last.op, last.event, {}, last.t).raised

\* What a retrieval request asks and who asks it
IsRetrieval == last.op = "retrieval" /\ Get(last.event, "httpMethod", "") = "GET"
ReqHeaders == Get(last.event, "headers", EmptyMap)
ReqParams == Get(last.event, "queryStringParameters", EmptyMap)
ReqAuth == IF ReqHeaders = Null THEN NoStr ELSE Get(ReqHeaders, "Authorization", NoStr)
ReqToken == IF StartsWith(ReqAuth, StrBearer) THEN Drop(ReqAuth, Len(StrBearer)) ELSE NoStr
ReqAuthenticated == ReqToken \in DOMAIN CognitoUsers /\ "cognito" \notin last.F
ReqImageId == IF ReqParams = Null THEN NoStr ELSE Get(ReqParams, "image_id", NoStr)
ReqExtension == IF ReqParams = Null THEN StrJpg ELSE Get(ReqParams, "extension", StrJpg)

EndsWith(s, p) == Len(s) >= Len(p) /\ SubSeq(s, Len(s) - Len(p) + 1, Len(s)) = p
CallsOf(api) == {j \in DOMAIN last.out.calls : last.out.calls[j].api = api}
HeadFailed == last.F \cap {"head_client", "head_other"} # {}

\* The request asks, as the uploader, for the watermark object obj: the
\* image_id is the upload's file name without its extension and the
\* extension is the one of the object's key
AsksFor(obj) ==
  LET parts == Split(objects[obj].original_key, "/")
  IN /\ objects[obj].processed_by = "lambda-watermark"
     /\ ReqAuthenticated
     /\ CognitoUsers[ReqToken] = parts[2]
     /\ ReqImageId # NoStr
     /\ StartsWith(parts[3], ReqImageId \o <<".">>)
     /\ ~Contains(Drop(parts[3], Len(ReqImageId) + 1), ".")
     /\ EndsWith(obj, <<".">> \o ReqExtension)

\* C7: a request of the uploader for a watermarked image, with the image_id
\* and the extension of the uploaded object, is answered with a signed URL
\* for exactly the key the Watermark stage uploaded (when no call fails).
C7_RetrievalFindsWatermarkKey ==
  \A obj \in DOMAIN objects :
    (IsRetrieval /\ last.F = {} /\ AsksFor(obj))
    => /\ last.out.response.statusCode = 200
       /\ last.out.response.body.processed_image.key = obj
       /\ last.out.response.body.processed_image.download_url.key = obj

C7_Witness ==
  /\ IsRetrieval
  /\ last.F = {}
  /\ \E obj \in DOMAIN objects : AsksFor(obj) /\ ReqExtension = StrPng
  /\ last.out.response.statusCode = 200

\* C8: a signed URL is issued only after an existence check of exactly that
\* key has succeeded; when the checked key is absent no URL is issued and the
\* answer is 404 with the image_id, the caller's user_id and the searched key.
C8_SignedOnlyAfterCheck ==
  IsRetrieval =>
    LET calls == last.out.calls
        resp == last.out.response
    IN /\ \A j \in CallsOf("generate_presigned_url") :
            /\ ~HeadFailed
            /\ calls[j].key \in DOMAIN objects
            /\ \E i \in CallsOf("head_object") : i < j /\ calls[i].key = calls[j].key
       /\ "processed_image" \in DOMAIN resp.body
            => \E j \in CallsOf("generate_presigned_url") :
                 calls[j].key = resp.body.processed_image.download_url.key
       /\ \A i \in CallsOf("head_object") :
            (~HeadFailed /\ calls[i].key \notin DOMAIN objects)
            => /\ CallsOf("generate_presigned_url") = {}
               /\ resp.statusCode = 404
               /\ "processed_image" \notin DOMAIN resp.body
               /\ resp.body.image_id = ReqImageId
               /\ resp.body.user_id = CognitoUsers[ReqToken]
               /\ resp.body.searched_path = calls[i].key

C8_Witness ==
  /\ IsRetrieval
  /\ last.out.response.statusCode = 404
  /\ objects # EmptyStore
  /\ \E i \in CallsOf("head_object") :
       last.out.response.body.searched_path = last.out.calls[i].key

\* C9: when the existence check fails for another reason than absence, the
\* answer is a server error (5xx), not 404, and no signed URL is issued.
C9_CheckFailureIsServerError ==
  (IsRetrieval /\ HeadFailed)
  => /\ last.out.response.statusCode \in 500..599
     /\ last.out.response.statusCode # 404
     /\ CallsOf("generate_presigned_url") = {}
     /\ "processed_image" \notin DOMAIN last.out.response.body

C9_Witness ==
  /\ IsRetrieval
  /\ "head_client" \in last.F
  /\ last.out.response.statusCode = 500
  /\ \E i \in CallsOf("head_object") : last.out.calls[i].key \in DOMAIN objects

\* C10: a GET request without a valid bearer token is answered 401 and makes
\* no Object Store call; an authenticated GET request without an image_id
\* parameter is answered 400.
C10_AuthThenParam ==
  IsRetrieval =>
    /\ ~ReqAuthenticated
         => /\ last.out.response.statusCode = 401
            /\ CallsOf("head_object") \cup CallsOf("generate_presigned_url") = {}
    /\ (ReqAuthenticated /\ ReqImageId = NoStr)
         => last.out.response.statusCode = 400

\* The key is uploads/<user_id>/<filename>: two separators, the literal first
\* segment, a non-empty second one
Slashes(key) == {i \in 1..Len(key) : key[i] = "/"}
WellFormedKey(key) ==
  /\ Cardinality(Slashes(key)) = 2
  /\ StartsWith(key, StrUploads \o <<"/">>)
  /\ key[Len(StrUploads) + 2] # "/"
SecondSegment(key) ==
  LET b == CHOOSE i \in Slashes(key) : i > Len(StrUploads) + 1
  IN SubSeq(key, Len(StrUploads) + 2, b - 1)
ThirdSegment(key) ==
  LET b == CHOOSE i \in Slashes(key) : i > Len(StrUploads) + 1
  IN SubSeq(key, b + 1, Len(key))

\* C11: for a creation notification the adapter extracts exactly the second
\* and third segment of a key uploads/<user_id>/<filename> with a non-empty
\* user_id, and any message it sends carries them; from any other key it
\* extracts nothing and sends no message.
C11_KeyParsing ==
  last.op = "ingestion" =>
    \A i \in DOMAIN last.out.steps :
      LET step == last.out.steps[i]
          key == last.event["Records"][i].s3.object.key
      IN step.outcome # "skipped" =>
           IF WellFormedKey(key)
           THEN /\ DOMAIN step.user_info = {"user_id", "filename"}
                /\ step.user_info.user_id = SecondSegment(key)
                /\ step.user_info.filename = ThirdSegment(key)
                /\ \A j \in DOMAIN step.sent :
                     /\ step.sent[j].user_id = SecondSegment(key)
                     /\ step.sent[j].original_filename = ThirdSegment(key)
           ELSE /\ IsNone(step.user_info)
                /\ step.sent = <<>>
                /\ step.outcome # "sent"

C11_Witness ==
  /\ last.op = "ingestion"
  /\ \E i, j \in DOMAIN last.out.steps :
       /\ WellFormedKey(last.event["Records"][i].s3.object.key)
       /\ last.out.steps[i].outcome = "sent"
       /\ ~WellFormedKey(last.event["Records"][j].s3.object.key)
       /\ last.out.steps[j].outcome = "no_user_info"

\* C12: when every publish succeeds the adapter answers 200, has looked at
\* every record, and has published exactly one message per creation
\* notification with a well-formed key, in batch order, each with image_id
\* equal to the object key.
Publishable(record) ==
  /\ StartsWith(record.eventName, StrObjectCreated)
  /\ WellFormedKey(record.s3.object.key)

C13_FitWithin ==
  last.op = "new_size" =>
    LET w == last.w
        h == last.h
        W == last.box[1]
        H == last.box[2]
    IN /\ last.out[1] <= W
       /\ last.out[2] <= H
       /\ IF w * H > W * h
          THEN last.out = <<W, (W * h) \div w>>
          ELSE last.out = <<(H * w) \div h, H>>

\* The boxes of the Resize stage in their configured order
Boxes == <<<<800, 600>>, <<1200, 900>>, <<400, 300>>>>

\* "<w>x<h>"
SizeText(size) == Digits(size[1]) \o <<"x">> \o Digits(size[2])

\* C14: an update of the Resize stage that records status resized carries
\* exactly three descriptors; the i-th names an object uploaded by this
\* invocation whose image fits the i-th box (800x600, 1200x900, 400x300)
\* with one side equal to the box's, and gives that image's size.
C14_ThreeVariantsInOrder ==
  last.op = "resize" =>
    \A i \in DOMAIN last.out.writes :
      LET w == last.out.writes[i]
          uploaded == {last.out.puts[j].key : j \in DOMAIN last.out.puts}
      IN w.attrs.processing_status = "resized" =>
           /\ DOMAIN w.attrs.resize_results = 1..3
           /\ store[w.key].resize_results = w.attrs.resize_results
           /\ \A k \in 1..3 :
                LET d == w.attrs.resize_results[k]
                IN /\ d.key \in uploaded
                   /\ d.key \in DOMAIN objects
                   /\ d.size = SizeText(objects[d.key].body.size)
                   /\ objects[d.key].body.size[1] <= Boxes[k][1]
                   /\ objects[d.key].body.size[2] <= Boxes[k][2]
                   /\ \/ objects[d.key].body.size[1] = Boxes[k][1]
                      \/ objects[d.key].body.size[2] = Boxes[k][2]

C14_Witness ==
  /\ last.op = "resize"
  /\ last.image = KeyPic
  /\ ~last.out.raised
  /\ Len(last.out.puts) = 3
  /\ \E i \in DOMAIN last.out.writes : last.out.writes[i].attrs.processing_status = "resized"

\* C15: a Resize invocation in which a download, a decode, a resample or an
\* upload fails raises; an invocation that raises has attempted to record
\* resize_failed with the text of its error, has written neither
\* resize_results nor status resized, and raises the same error whether or
\* not the resize_failed update succeeds.
ResizeStepLabels == {"get", "put1", "put2", "put3"}

C15_ResizeFailureRecorded ==
  last.op = "resize" =>
    LET out == last.out
    IN /\ (last.F \cap ResizeStepLabels # {} \/ last.image \in {KeyTxt, KeyThin}) => out.raised
       /\ out.raised =>
            /\ out.attempted = <<"resize_failed">>
            /\ \A i \in DOMAIN out.writes :
                 /\ out.writes[i].attrs.processing_status = "resize_failed"
                 /\ out.writes[i].attrs.error_message = out.reason
                 /\ "resize_results" \notin DOMAIN out.writes[i].attrs
            /\ "dbfail" \notin last.F =>
                 /\ Len(out.writes) = 1
                 /\ store[out.writes[1].key].processing_status = "resize_failed"
                 /\ store[out.writes[1].key].error_message = out.reason
            /\ "dbfail" \in last.F =>
                 /\ out.writes = <<>>
                 /\ ResizeMain(last.event, last.F \ {"dbfail"}, last.t).raised
                 /\ ResizeMain(last.event, last.F \ {"dbfail"}, last.t).reason = out.reason

C15_Witness ==
  /\ last.op = "resize"
  /\ last.out.raised
  /\ "put2" \in last.F
  /\ Len(last.out.puts) = 1
  /\ Len(last.out.writes) = 1

\* What the keys of the outputs are built from: the user segment of the
\* original key, its file name without the extension, and png for a PNG
\* original, jpg otherwise
OrigUser(image) == SecondSegment(image)
OrigBase(image) ==
  LET file == ThirdSegment(image)
      dots == {i \in 1..Len(file) : file[i] = "."}
      dot == CHOOSE i \in dots : \A j \in dots : j <= i
  IN SubSeq(file, 1, dot - 1)
OutExtension(image) == IF InputObject(image).format = "PNG" THEN StrPng ELSE StrJpg

\* The event names the file of its image as original_filename
NamesFile(event) ==
  LET input_data == IF "input" \in DOMAIN event THEN event["input"] ELSE event
  IN /\ {"image_id", "original_filename"} \subseteq DOMAIN input_data
     /\ WellFormedKey(input_data["image_id"])
     /\ input_data["original_filename"] = ThirdSegment(input_data["image_id"])

\* C16: every object a Resize invocation uploads for uploads/<u>/<base>.<e>,
\* invoked with original_filename <base>.<e>, has the key
\* resized/<u>/<base>_<w>x<h>.<ext>, with <w>x<h> the size of the uploaded
\* variant and <ext> png for a PNG original, jpg otherwise.
C16_ResizeKeyForm ==
  (last.op = "resize" /\ NamesFile(last.event)) =>
    \A j \in DOMAIN last.out.puts :
      LET put == last.out.puts[j]
      IN /\ put.key = StrResized \o <<"/">> \o OrigUser(last.image) \o <<"/">>
                        \o OrigBase(last.image) \o <<"_">> \o SizeText(put.object.body.size)
                        \o <<".">> \o OutExtension(last.image)
         /\ put.key \in DOMAIN objects

C16_Witness ==
  /\ last.op = "resize"
  /\ NamesFile(last.event)
  /\ last.image = KeyPic
  /\ "input" \in DOMAIN last.event
  /\ Len(last.out.puts) = 3

\* C17: a Watermark invocation that returns has uploaded exactly one object
\* (with key watermarked/<u>/<base>_watermarked.<ext> when it was invoked for
\* uploads/<u>/<base>.<e> with that file name), and its update records
\* status watermarked with a watermark_result of the uploaded key; an
\* invocation that raises records neither.
C17_OneWatermarkObject ==
  last.op = "watermark" =>
    LET out == last.out
    IN /\ ~out.raised =>
            /\ Len(out.puts) = 1
            /\ NamesFile(last.event) =>
               out.puts[1].key = StrWatermarked \o <<"/">> \o OrigUser(last.image) \o <<"/">>
                                   \o OrigBase(last.image) \o <<"_">> \o StrWatermarked
                                   \o <<".">> \o OutExtension(last.image)
            /\ out.puts[1].key \in DOMAIN objects
            /\ Len(out.writes) = 1
            /\ out.writes[1].attrs.processing_status = "watermarked"
            /\ out.writes[1].attrs.watermark_result.key = out.puts[1].key
            /\ store[out.writes[1].key].watermark_result.key = out.puts[1].key
       /\ out.raised =>
            \A i \in DOMAIN out.writes :
              /\ out.writes[i].attrs.processing_status # "watermarked"
              /\ "watermark_result" \notin DOMAIN out.writes[i].attrs

C17_Witness ==
  /\ last.op = "watermark"
  /\ ~last.out.raised
  /\ NamesFile(last.event)
  /\ last.image = KeyThin
  /\ Len(last.out.puts) = 1
  /\ last.out.writes[1].attrs.watermark_result.key \in DOMAIN objects

\* The integer q with 2q <= n < 2q + 2
FloorHalf(n) == CHOOSE q \in -n - 1 .. n + 1 \cup (n - 1 .. -n + 1) : 2 * q <= n /\ n < 2 * q + 2

\* C18: the draw origin for an image W x H and a text box tw x th is (10,10)
\* for top-left, (W-tw-10, 10) for top-right, (10, H-th-10) for bottom-left,
\* (floor((W-tw)/2), floor((H-th)/2)) for center, and (W-tw-10, H-th-10) for
\* bottom-right and for every other configured value.
C18_DrawOrigin ==
  last.op = "origin" =>
    LET W == last.width
        H == last.height
        tw == last.text_width
        th == last.text_height
    IN /\ last.position = "top-left" => last.out = <<10, 10>>
       /\ last.position = "top-right" => last.out = <<W - tw - 10, 10>>
       /\ last.position = "bottom-left" => last.out = <<10, H - th - 10>>
       /\ last.position = "center" => last.out = <<FloorHalf(W - tw), FloorHalf(H - th)>>
       /\ last.position \notin {"top-left", "top-right", "bottom-left", "center"}
            => last.out = <<W - tw - 10, H - th - 10>>

\* A centred text wider than the image by an odd number of pixels
C18_Witness ==
  /\ last.op = "origin"
  /\ last.position = "center"
  /\ last.width < last.text_width
  /\ (last.text_width - last.width) % 2 = 1
  /\ last.out[1] < 0

\* Modes with an alpha channel
AlphaModes == {"RGBA", "LA", "PA", "RGBa", "La"}

\* C19: whenever the Watermark stage encodes the image of an input whose
\* original format is JPEG, the image handed to the encoder has a mode
\* without alpha and the encoder is the JPEG one.
C19_JpegEncodedOpaque ==
  (last.op = "watermark" /\ last.image \in StoredKeys
     /\ InputObject(last.image).format = "JPEG") =>
    \A i \in DOMAIN last.out.encoded :
      /\ last.out.encoded[i].mode \notin AlphaModes
      /\ last.out.encoded[i].format = "JPEG"

\* A JPEG input was watermarked and its encoded image uploaded
C19_Witness ==
  /\ last.op = "watermark"
  /\ last.image = KeyAbc
  /\ InputObject(last.image).format = "JPEG"
  /\ ~last.out.raised
  /\ Len(last.out.encoded) = 1
  /\ last.out.encoded[1].mode = "RGB"
  /\ last.out.puts[1].object.body = last.out.encoded[1]

\* The result of validate_image is the size-exceeded rejection
SizeExceeded(result) ==
  /\ ~result.is_valid
  /\ result.error = "File size exceeds maximum allowed size"

\* C20: validate_image answers with the size-exceeded rejection exactly when
\* the payload is longer than 10 MiB = 10485760 bytes, whatever its first
\* and last bytes are; a payload of exactly 10485760 bytes is judged by its
\* format and header alone.
C20_SizeCheckFirst ==
  last.op = "validate_image" =>
    /\ SizeExceeded(last.out) <=> last.data.size > 10485760
    /\ last.data.size <= 10485760 =>
          last.out = ValidateImage([last.data EXCEPT !.size = 3000])
                       \/ (last.out.is_valid /\ last.out.image_info.size_bytes = last.data.size)

\* A payload one byte over the ceiling that is no image at all
C20_Witness ==
  /\ last.op = "validate_image"
  /\ last.data.size = 10485761
  /\ last.data.head = TxtHead
  /\ SizeExceeded(last.out)

\* C21: for a payload within the size limit, one sniffed as PNG passes
\* validation whenever its first eight bytes are the PNG signature, whatever
\* its last bytes; one sniffed as JPEG passes exactly when it starts with
\* FF D8 and ends with FF D9; one sniffed as GIF passes only if it starts
\* with GIF87a or GIF89a.
C21_HeaderChecks ==
  (last.op = "validate_image" /\ last.data.size <= 10485760) =>
    LET head == last.data.head
        sniffed == ImghdrWhat(head)
    IN /\ (sniffed = "png" /\ SubSeq(head, 1, 8) = <<137, 80, 78, 71, 13, 10, 26, 10>>)
            => last.out.is_valid
       /\ sniffed = "jpeg" =>
            (last.out.is_valid <=> (SubSeq(head, 1, 2) = <<255, 216>>
                                     /\ last.data.tail = <<255, 217>>))
       /\ (sniffed = "gif" /\ last.out.is_valid) =>
            SubSeq(head, 1, 6) \in {<<71, 73, 70, 56, 55, 97>>, <<71, 73, 70, 56, 57, 97>>}

\* A payload with the PNG signature and the last bytes of a text file passes
C21_Witness ==
  /\ last.op = "validate_image"
  /\ last.data.head = PngHead
  /\ last.data.tail = TxtTail
  /\ last.data.size = 3000
  /\ last.out.is_valid
  /\ last.out.image_info.format = "png"

\* The download of an invocation fails: get_object fails, or the bucket
\* holds nothing (or an empty object) under the key
DownloadFails(call) ==
  /\ {"image_id", "bucket_name", "user_id", "user_email"} \subseteq DOMAIN call.event
  /\ \/ "get" \in call.F
     \/ call.image \notin StoredKeys

\* C22: a Validation invocation whose download fails raises, attempts to
\* record validation_error and no other status, and writes no status
\* validated.
C22_DownloadFailureRaises ==
  (last.op = "validation" /\ DownloadFails(last)) =>
    /\ last.out.raised
    /\ last.out.attempted = <<"validation_error">>
    /\ \A i \in DOMAIN last.out.writes :
         /\ last.out.writes[i].attrs.status = "validation_error"
         /\ last.out.writes[i].key = last.image

\* get_object failed for an object the bucket holds, and the error status
\* was written
C22_Witness ==
  /\ last.op = "validation"
  /\ last.image = KeyAbc
  /\ "get" \in last.F
  /\ last.out.raised
  /\ Len(last.out.writes) = 1
  /\ last.image \in DOMAIN store
  /\ store[last.image].status = "validation_error"

\* C23: any two start calls the Orchestrator makes use different run names.
C23_UniqueRunNames ==
  \A a, b \in DOMAIN starts : a # b => starts[a].name # starts[b].name

HexChars == {"0", "1", "2", "3", "4", "5", "6", "7", "8", "9", "a", "b", "c", "d", "e", "f"}
DecChars == {"0", "1", "2", "3", "4", "5", "6", "7", "8", "9"}

\* C24: the run name has at most 80 characters, for every user_id, image and
\* timestamp: it is img-, the first 8 characters of the user_id (all of it
\* when shorter), -, 8 hex characters, -, and the decimal epoch second.
C24_RunNameBounded ==
  last.op = "execution_name" =>
    LET name == last.out
        u == Min(8, Len(last.user_id))
    IN /\ Len(name) <= 80
       /\ Len(name) > u + 14
       /\ SubSeq(name, 1, 4) = <<"i", "m", "g", "-">>
       /\ SubSeq(name, 5, 4 + u) = SubSeq(last.user_id, 1, u)
       /\ name[5 + u] = "-"
       /\ \A i \in 6 + u .. 13 + u : name[i] \in HexChars
       /\ name[14 + u] = "-"
       /\ \A i \in 15 + u .. Len(name) : name[i] \in DecChars

\* The name of a user_id of at least 70 characters at the largest second
C24_Witness ==
  /\ last.op = "execution_name"
  /\ Len(last.user_id) >= 70
  /\ last.timestamp = 2147483647
  /\ Len(last.out) = 32

\* Invocation i ends process_sqs_message for its current record in this step
EndsMessage(i) ==
  /\ inv[i].pc \in {"start", "write"}
  /\ \/ inv'[i].pc = "idle"
     \/ inv'[i].idx # inv[i].idx

\* C25: a message whose start call the engine rejects raises out of
\* process_sqs_message without a Status Store write; the Orchestrator writes
\* a record only for a message whose start call returned a handle, and the
\* record it writes has status processing and that handle as execution_arn.
C25_RecordOnlyAfterStart ==
  /\ [](last.op = "orchestrator" =>
          \A j \in DOMAIN last.steps :
            LET step == last.steps[j]
            IN /\ (step.called /\ step.handle = NoStr) =>
                    (step.raised /\ step.updated = "none")
               /\ step.updated # "none" => step.handle # NoStr)
  /\ [](\A w \in writeLog :
          w.by = "orchestrator" =>
            \E k \in DOMAIN starts :
              /\ starts[k].ok
              /\ ImageOf(starts[k].msg) = w.image
              /\ w.key = w.image)
  /\ [][\A i \in Invs :
          (EndsMessage(i) /\ store' # store) =>
            /\ inv[i].pc = "write"
            /\ LET image_id == ImageOf(inv[i].batch[inv[i].idx])
               IN /\ store'[image_id].status = "processing"
                  /\ store'[image_id].execution_arn = inv[i].handle
                  /\ \E k \in DOMAIN starts :
                       /\ starts[k].ok
                       /\ starts[k].inv = i
                       /\ starts[k].msg = inv[i].batch[inv[i].idx]
                       /\ starts[k].name = store'[image_id].execution_arn
                  /\ \E r \in DOMAIN runs :
                       /\ runs[r].name = inv[i].handle
                       /\ runs[r].input.image_id = image_id]_vars

\* The engine rejected the start call of a message that has no record
C25_Witness ==
  /\ last.op = "orchestrator"
  /\ last.cause = "engine"
  /\ last.steps[Len(last.steps)].called
  /\ ~starts[Len(starts)].ok
  /\ ImageOf(last.steps[Len(last.steps)].msg) \notin DOMAIN store
  /\ \E k \in DOMAIN store : "execution_arn" \in DOMAIN store[k]

\* C26: when update_item fails after a run was started, the message's step
\* does not raise, the run stays in the engine, the invocation goes on with
\* the next message of the batch, and an invocation without another failure
\* is answered 200.
C26_StatusWriteBestEffort ==
  last.op = "orchestrator" =>
    /\ \A j \in DOMAIN last.steps :
         last.steps[j].updated = "failed" =>
           /\ ~last.steps[j].raised
           /\ \E r \in DOMAIN runs : runs[r].name = last.steps[j].handle
           /\ j < Len(last.batch) => Len(last.steps) > j
    /\ (\A j \in DOMAIN last.steps : last.steps[j].handle # NoStr) =>
         /\ last.statusCode = 200
         /\ Len(last.steps) = Len(last.batch)

\* The write for the first message of a batch of two failed and a run was
\* started for the second
C26_Witness ==
  /\ last.op = "orchestrator"
  /\ Len(last.batch) = 2
  /\ Len(last.steps) = 2
  /\ last.steps[1].updated = "failed"
  /\ last.steps[2].updated = "written"
  /\ Len(runs) = 2
  /\ ImageOf(last.batch[1]) \notin DOMAIN store

\* The runs of the engine, without the stage each has reached
Started(rs) == [r \in DOMAIN rs |-> [name |-> rs[r].name, input |-> rs[r].input]]

\* C29: an invocation handles the messages of its batch one after the other
\* in delivery order; the first message that fails is the last one it
\* handles (no start call and no write for a later message), an invocation
\* without failure handles them all, and the runs it started before the
\* failure stay started: the engine never loses a run.
C29_SequentialAbortOnFailure ==
  /\ [](last.op = "orchestrator" =>
          /\ Len(last.steps) \in 1..Len(last.batch)
          /\ \A j \in DOMAIN last.steps :
               /\ last.steps[j].msg = last.batch[j]
               /\ last.steps[j].raised <=> (j = Len(last.steps) /\ last.cause # "none")
               /\ ~last.steps[j].raised =>
                    \E r \in DOMAIN runs : runs[r].name = last.steps[j].handle
          /\ last.cause = "none" => Len(last.steps) = Len(last.batch))
  /\ [](\A i \in Invs :
          inv[i].pc # "idle" =>
            /\ Len(inv[i].steps) = inv[i].idx - 1
            /\ \A j \in DOMAIN inv[i].steps :
                 /\ inv[i].steps[j].msg = inv[i].batch[j]
                 /\ ~inv[i].steps[j].raised)
  /\ [][/\ Len(runs') >= Len(runs)
        /\ SubSeq(Started(runs'), 1, Len(runs)) = Started(runs)
        /\ Len(starts') >= Len(starts)
        /\ SubSeq(starts', 1, Len(starts)) = starts
        /\ \A i \in Invs :
             Len(starts') > Len(starts) =>
               (starts'[Len(starts')].inv = i =>
                  starts'[Len(starts')].msg = inv[i].batch[inv[i].idx])]_vars

\* A batch of two whose second message failed after a run was started for
\* the first
C29_Witness ==
  /\ last.op = "orchestrator"
  /\ Len(last.batch) = 2
  /\ Len(last.steps) = 2
  /\ ~last.steps[1].raised
  /\ last.steps[2].raised
  /\ \E r \in DOMAIN runs : runs[r].name = last.steps[1].handle

\* C30: no well-formed job message is lost: a message the queue has deleted
\* either does not parse or has had a run started for it.
C30_NoJobLost ==
  \A m \in MsgIds :
    (queue[m].st = "deleted" /\ ParseOk(MsgPool[m])) =>
      \E k \in DOMAIN starts : starts[k].msg = m /\ starts[k].ok

FailureStatuses == {"validation_failed", "validation_error", "resize_failed", "watermark_failed"}

\* C27: a record of the Status Store carries error_message only while its
\* processing status is one of the failure variants.
C27_ErrorMessageOnlyOnFailure ==
  \A k \in DOMAIN store :
    "error_message" \in DOMAIN store[k] =>
      /\ StatusesOf(store[k]) # {}
      /\ StatusesOf(store[k]) \subseteq FailureStatuses

\* The attributes of a record that belong to stages other than op
ForeignFields(op) ==
  {"execution_arn"} \cup
    CASE op = "validation" -> {"resize_results", "watermark_result"}
      [] op = "resize" -> {"validation_result", "watermark_result"}
      [] op = "watermark" -> {"validation_result", "resize_results"}

\* Attribute f of record k is the same before and after the step
SameField(k, f) ==
  IF k \in DOMAIN store /\ f \in DOMAIN store[k]
  THEN k \in DOMAIN store' /\ f \in DOMAIN store'[k] /\ store'[k][f] = store[k][f]
  ELSE k \in DOMAIN store' => f \notin DOMAIN store'[k]

\* C28: a stage's invocation leaves, in every record, the result fields of
\* the other stages and execution_arn as they were.
C28_StagesKeepForeignFields ==
  [][(last' # last /\ last'.op \in StageOps) =>
       \A k \in (DOMAIN store) \cup (DOMAIN store') :
         \A f \in ForeignFields(last'.op) : SameField(k, f)]_vars

\* Watermark has written its result to a record that holds the variants of
\* Resize, and the record of the Orchestrator still names the run
C28_Witness ==
  /\ last.op = "watermark"
  /\ ~last.out.raised
  /\ \E k \in DOMAIN store :
       /\ {"resize_results", "watermark_result"} \subseteq DOMAIN store[k]
       /\ Len(store[k].resize_results) = 3
  /\ \E k \in DOMAIN store :
       {"execution_arn", "validation_result"} \subseteq DOMAIN store[k]

\* Statuses the stages record
StageStatuses ==
  {"validated", "resized", "watermarked"} \cup FailureStatuses

\* Exactly one start call was made for the image, and it returned a run
StartedOnce(image_id) ==
  /\ Cardinality({k \in DOMAIN starts : ImageOf(starts[k].msg) = image_id}) = 1
  /\ \A k \in DOMAIN starts : ImageOf(starts[k].msg) = image_id => starts[k].ok

\* C31: for an image with a single run, once a stage of the run has recorded
\* a status in the record, no later write sets the record's status back to
\* processing.
C31_StatusNeverBackToProcessing ==
  [][\A k \in DOMAIN store :
       (/\ StartedOnce(k)
        /\ "status" \in DOMAIN store[k]
        /\ store[k].status \in StageStatuses)
       => store'[k].status # "processing"]_vars

\* C32: an invocation of the Ingestion Adapter in which a publish fails does
\* not complete normally, and an invocation that completes normally has
\* published every valid creation notification of its event.
C32_PublishFailureIsFatal ==
  last.op = "ingestion" =>
    /\ (\E j \in DOMAIN last.out.steps : last.out.steps[j].outcome = "send_failed")
         => last.out.completed = "raised"
    /\ last.out.completed = "returned" =>
         Len(last.out.sent) = Cardinality({j \in DOMAIN last.event["Records"] :
                                             Publishable(last.event["Records"][j])})

\* C33: a Resize invocation for an image narrower or lower than 100 pixels
\* raises and records no status resized.
C33_SmallImageRejectedByResize ==
  (/\ last.op = "resize"
   /\ last.image \in StoredKeys
   /\ InputObject(last.image).format # "NONE"
   /\ \/ InputObject(last.image).width < 100
      \/ InputObject(last.image).height < 100)
  => /\ last.out.raised
     /\ \A i \in DOMAIN last.out.writes :
          last.out.writes[i].attrs.processing_status # "resized"

\* Fields of a record that describe the processing of one image
ImageFields == {"status", "processing_status", "resize_results", "watermark_result",
                "error_message"}

\* C34: a stage invocation for one image leaves status, resize_results,
\* watermark_result and error_message of every record that a stage wrote
\* for another image as they were.
C34_RecordsOfImagesIsolated ==
  [][(last' # last /\ last'.op \in StageOps) =>
       \A k \in DOMAIN store :
         (\E w \in writeLog : /\ w.by \in StageOps
                              /\ w.key = k
                              /\ w.image # last'.image)
         => \A f \in ImageFields : SameField(k, f)]_vars

\* C35: for every input of a format Validation accepts (JPEG, PNG, GIF) the
\* image the Watermark stage hands to the JPEG encoder has a mode without
\* alpha, and encoding it succeeds when no call fails.
C35_AcceptedFormatsWatermarked ==
  (/\ last.op = "watermark"
   /\ last.image \in StoredKeys
   /\ InputObject(last.image).format \in {"JPEG", "PNG", "GIF"})
  => /\ \A i \in DOMAIN last.out.encoded :
          last.out.encoded[i].format = "JPEG" => last.out.encoded[i].mode \notin AlphaModes
     /\ (last.F = {} /\ Len(last.out.encoded) = 1) => ~last.out.raised

\* C36: for an original of width and height at least 1 and each of the
\* three boxes, both computed dimensions are at least 1.
C36_ComputedSizePositive ==
  (last.op = "new_size" /\ last.w >= 1 /\ last.h >= 1) =>
    /\ last.out[1] >= 1
    /\ last.out[2] >= 1

\* The output keys of the three variants of a w x h JPEG named abc.jpg of
\* user u1
VariantKeys(w, h) ==
  [k \in DOMAIN RESIZE_DIMENSIONS |->
     ResizeOutputKey(U1, StrAbc, NewSize(w, h, RESIZE_DIMENSIONS[k]), StrJpg)]

\* For every original size the three keys differ from one another
DistinctVariantKeys ==
  \A w, h \in ImageSides :
    \A j, k \in DOMAIN RESIZE_DIMENSIONS : VariantKeys(w, h)[j] = VariantKeys(w, h)[k] => j = k

\* C37: the output keys of one Resize invocation are pairwise distinct, for
\* the images of the bucket and for every original size; an invocation that
\* succeeds leaves three different objects in the output bucket.
C37_OutputKeysDistinct ==
  /\ DistinctVariantKeys
  /\ last.op = "resize" =>
       /\ \A j, k \in DOMAIN last.out.puts :
            last.out.puts[j].key = last.out.puts[k].key => j = k
       /\ ~last.out.raised =>
            Cardinality({last.out.puts[j].key : j \in DOMAIN last.out.puts}
                          \cap DOMAIN objects) = 3

\* Resize succeeded for a JPEG and its three variants are stored under three
\* keys
C37_Witness ==
  /\ last.op = "resize"
  /\ last.image = KeyAbc
  /\ ~last.out.raised
  /\ last.F = {}
  /\ Cardinality({last.out.puts[j].key : j \in DOMAIN last.out.puts}) = 3
  /\ \A j \in DOMAIN last.out.puts : last.out.puts[j].key \in DOMAIN objects

\* The keys a request checked or signed, and the key its answer names
KeysUsed(call) ==
  {call.out.calls[i].key :
     i \in {j \in DOMAIN call.out.calls : call.out.calls[j].api # "get_user"}}
    \cup (IF call.out.response.statusCode = 200 /\ call.event["httpMethod"] = "GET"
          THEN {call.out.response.body.processed_image.key,
                call.out.response.body.processed_image.download_url.key}
          ELSE {})

\* The token of a request's Authorization header
TokenOf(call) == Split(call.event["headers"]["Authorization"], " ")[2]

\* A parameter of a request's query string, NoStr when it has none
ParamOf(call, name) == Get(call.event["queryStringParameters"], name, NoStr)

\* C38: every key a retrieval request checks or signs starts with
\* watermarked/<subject>/, where the subject is the user name the identity
\* provider gave for the request's token, whatever the query string holds;
\* two consecutive requests of different subjects for the same image_id
\* and extension use different keys.
C38_RetrievalNamespace ==
  [][(last'.op = "retrieval" /\ KeysUsed(last') # {}) =>
       /\ last'.out.calls[1] = [api |-> "get_user", key |-> TokenOf(last')]
       /\ TokenOf(last') \in DOMAIN CognitoUsers
       /\ \A k \in KeysUsed(last') :
            StartsWith(k, StrWatermarked \o <<"/">> \o CognitoUsers[TokenOf(last')] \o <<"/">>)
       /\ (/\ last.op = "retrieval"
           /\ KeysUsed(last) # {}
           /\ CognitoUsers[TokenOf(last)] # CognitoUsers[TokenOf(last')]
           /\ ParamOf(last, "image_id") = ParamOf(last', "image_id")
           /\ ParamOf(last, "extension") = ParamOf(last', "extension"))
          => KeysUsed(last) \cap KeysUsed(last') = {}]_vars

\* User u1 asked for abc with a query string that names user u2, and was
\* given a link to the object in the folder of u1
C38_Witness ==
  /\ last.op = "retrieval"
  /\ last.out.response.statusCode = 200
  /\ KeysUsed(last) = {RetrievalKey(U1, StrAbc, StrJpg)}
  /\ TokenOf(last) = T1
  /\ ParamOf(last, "user_id") = U2

\* The fields the Validation stage reads from its event
ValidationFields == {"image_id", "bucket_name", "user_id", "user_email"}

\* C39: every message the Ingestion Adapter publishes, read back from its
\* JSON text, has the five fields the Orchestrator requires and is accepted
\* as well-formed; the run context the Orchestrator builds from it has the
\* four fields Validation reads, with image_id the key of the notification,
\* the notification's bucket and the key's second segment as user_id, and
\* Validation does not fail on it for a missing field.
C39_SchemaAgreement ==
  last.op = "ingestion" =>
    \A j \in DOMAIN last.out.steps :
      last.out.steps[j].outcome = "sent" =>
        LET record == last.event["Records"][j]
            message == last.out.steps[j].sent[1]
            body == JsonLoads(JsonDumps(message))
            context == WorkflowInput(body.obj, StartTime + last.t)
        IN /\ RequiredFields \subseteq DOMAIN message
           /\ ParseOk(body)
           /\ body.obj["file_size"] = record.s3.object.size
           /\ ValidationFields \subseteq DOMAIN context
           /\ context.image_id = record.s3.object.key
           /\ context.bucket_name = record.s3.bucket.name
           /\ context.user_id = Split(record.s3.object.key, "/")[2]
           /\ ValidationMain(context, {}, last.t).reason # "KeyError"
           /\ \E i \in DOMAIN published : published[i] = message

\* The notification of uploads/u1/abc.jpg was published with its size
C39_Witness ==
  /\ last.op = "ingestion"
  /\ last.out.statusCode = 200
  /\ \E j \in DOMAIN last.out.steps :
       /\ last.out.steps[j].outcome = "sent"
       /\ last.out.steps[j].sent[1].image_id = KeyAbc
       /\ last.out.steps[j].sent[1].file_size = 2000
       /\ published[Len(published)] = last.out.steps[j].sent[1]

====
